---- MODULE Spec2Model ----
(***************************************************************************)
(* Model of the tgsummarizer daily-summary core:                           *)
(*   - TelegramBot._filter_messages_by_time_range  (time-of-day windows)   *)
(*   - TelegramBot.send_daily_summary              (the aggregation pass)  *)
(*   - DailySummaryScheduler.seconds_until_target_time, scheduler_loop,    *)
(*     start, stop and send_daily_summaries        (the daily scheduler)   *)
(*   - MessageStorage.save_message, load_messages  (the day partitions)    *)
(* Times of day are whole seconds since midnight (0..86399); a "HH:MM"     *)
(* argument is the sequence of its characters, so that Python's string     *)
(* comparison and int() parsing are computed as the code computes them.    *)
(***************************************************************************)
EXTENDS Integers, Sequences, FiniteSets, TLC

\* ---------------------------------------------------------------- bounds
\* longest message list handed to the filter in SpecFilter
MaxFilterMsgs == 2
\* longest message list split into the four periods in SpecWindows
MaxWindowMsgs == 1
\* most messages in the day's partition file in SpecAgg
MaxDayMsgs == 4

VARIABLES
    \* --- SpecFilter: one call of _filter_messages_by_time_range
    f_pc,            \* "ready" | "done"
    f_start,         \* start_time argument, a character sequence
    f_end,           \* end_time argument, a character sequence
    f_messages,      \* messages argument
    f_result,        \* filtered_messages returned
    \* --- SpecWindows: the four time_periods applied to one list
    w_pc,            \* "ready" | "done"
    w_messages,      \* the day's messages
    w_selected,      \* period name -> messages the filter returned for it
    \* --- SpecAgg: one call of send_daily_summary(chat_id)
    a_pc,            \* "start" | "periods" | "stats" | "done" (result returned)
    day_file,        \* today's partition file of the chat: [kind, msgs]
    messages,        \* the list load_messages returned
    period_idx,      \* index into time_periods of the next period
    result,          \* the report dict
    error_messages,  \* the local error list shown in the statistics text
    total_messages_processed,
    sent,            \* texts handed to safe_send_message / safe_send_and_split, in
                     \* order; the call returns None when the send fails, never raises
    ai_calls,        \* period names generate_period_summary was called with, in order
    visited,         \* history: one record per period the loop has gone through
    fatal,           \* history: the top-level except clause ran
    \* --- shared environment
    host_utc_offset, \* UTC offset (hours) of the host zone used by astimezone()
    \* --- SpecUntil: one call of DailySummaryScheduler.seconds_until_target_time
    u_pc,            \* "ready" | "done"
    u_now,           \* datetime.now(): [day, tod], tod in ticks since midnight
    u_target,        \* self.target_time, whole seconds since midnight
    u_result,        \* the int returned
    \* --- SpecSched: one scheduler thread running scheduler_loop
    s_pc,            \* "init" | "head" | "prefire_wait" | "firing" | "penalty_wait" |
                     \* "cooldown" | "chunk_wait" | "except" | "backoff" | "exited"
    running,         \* self.running
    clock,           \* datetime.now() of the host, in ticks
    target_time,     \* self.target_time, whole seconds since midnight
    error_count,     \* local error_count of scheduler_loop
    seconds_to_wait, \* local seconds_to_wait
    wait_time,       \* local wait_time of the chunked wait
    s_target_dt,     \* history: the occurrence the last seconds_until_target_time aimed at
    computed_at,     \* history: clock of the last seconds_until_target_time call, -1 if none
    fires,           \* history: one record per send_daily_summaries run started
    stop_called,     \* history: stop() has run
    sleeps_after_stop, \* history: waits that ended after stop() ran
    raised_in_a_row, \* history: the most recent loop iterations that all reached line 285
    failed_fires_in_a_row, \* history: the most recent fires that all raised
    \* --- SpecMulti: one call of DailySummaryScheduler.send_daily_summaries
    m_pc,            \* "start" | "chats" | "report" | "done" (report returned)
    m_dirs,          \* chat ids get_chat_list returns, in directory order
    m_store_ok,      \* FALSE: get_chat_list raises (data directory unreadable)
    m_sink_raises,   \* TRUE: bot_instance.safe_send_message raises
    chat_ids,        \* local chat_ids
    m_idx,           \* index into chat_ids of the next chat
    execution_report, \* the report dict
    m_calls,         \* history: chat ids send_daily_summary was called with, in order
    m_sends,         \* history: [chat, kind] of every safe_send_message call
    m_counted,       \* history: [chat, bucket] of every bucket increment
    m_raised,        \* history: chat ids whose send_daily_summary raised
    allowed_chats,   \* config.allowed_chats, the bot's self.allowed_chats
    \* --- SpecStore: save_message and load_messages on the data directory
    store_now,       \* utcnow() + timezone offset, in ticks
    store_files,     \* chat -> day -> partition file [kind, msgs]
    store_dirs,      \* chats that have a directory under data_dir
    t_saves,         \* number of save_message calls made
    t_last,          \* the last storage call: arguments and outcome
    t_prev,          \* the storage call before it; a clock step clears both
    \* --- SpecReaders: one reading or pruning call on a data directory
    r_pc,            \* "ready" | "done"
    r_now,           \* utcnow() + timezone offset at the call, in ticks
    r_found,         \* chat -> day -> partition file, as found before the call
    r_files,         \* chat -> day -> partition file, now
    r_call,          \* the call made: operation and arguments
    r_result,        \* what it returned: [raised, value]
    \* --- SpecSummarizer: generate_period_summary for one period, then the
    \*     pass's handling of what it returned
    g_pc,            \* "ready" | "returned" | "done"
    g_period,        \* period_name
    g_messages,      \* the period's messages
    g_api_key,       \* bool(self.api_key)
    g_api,           \* what the chat-completions request runs into
    g_api_calls,     \* history: calls of _make_api_request
    g_posts,         \* history: calls of requests.post
    g_summary,       \* what generate_period_summary returned: [raised, value]
    g_pass,          \* the pass's record for the period: [errors, sent, periods_processed]
    \* --- SpecRanking: the participant ranking of one pass
    k_pc,            \* "ready" | "done"
    k_messages,      \* local messages: every event loaded for the day
    k_period_messages, \* the events of the periods that were summarized
    k_user_stats,    \* local user_stats, as a sequence of [user, count] in insertion order
    k_top_users,     \* local top_users
    \* --- SpecOffset: one scheduled fire on a host whose zone and the
    \*     configured timezone_offset_hours may differ
    o_pc,            \* "ready" | "waiting" | "fired"
    o_utc,           \* the instant, as UTC ticks
    o_offset_hours,  \* config.timezone_offset_hours
    o_target,        \* self.target_time, seconds of the day
    o_local_now,     \* local_now of seconds_until_target_time
    o_seconds,       \* what seconds_until_target_time returned
    o_loaded_day,    \* local_today of send_daily_summary, -1 before the fire
    \* --- SpecRestart: start() and stop() called again and again on one
    \*     DailySummaryScheduler, and the loop threads they leave
    z_running,       \* self.running
    z_pc,            \* thread -> "none" | "head" | "chunk_wait" | "prefire_wait" | "cooldown" | "exited"
    z_phase,         \* the clock: "far" from the target, "near" (within 60 s), "due"
    z_day,           \* the occurrence of the target the clock is heading for
    z_fired,         \* history: [thread, day] of every send_daily_summaries run
    \* --- SpecRace: save_message on the bot's thread and load_messages on the
    \*     scheduler's thread, on one partition file
    c_pc,            \* the writer: "idle" | "loaded" | "opened" | "dumping"
    c_file,          \* the partition file, FileOf(kind, msgs)
    c_messages,      \* the writer's local list 'messages'
    c_saves,         \* save_message calls begun
    c_held,          \* history: the list the last completed write left in the file
    c_read,          \* history: the last load_messages of the reader, or NoRead
    c_reads          \* load_messages calls of the reader

fvars == <<f_pc, f_start, f_end, f_messages, f_result>>
wvars == <<w_pc, w_messages, w_selected>>
avars == <<a_pc, day_file, messages, period_idx, result, error_messages,
           total_messages_processed, sent, ai_calls, visited, fatal>>
uvars == <<u_pc, u_now, u_target, u_result>>
svars == <<s_pc, running, clock, target_time, error_count, seconds_to_wait, wait_time,
           s_target_dt, computed_at, fires, stop_called, sleeps_after_stop, raised_in_a_row,
           failed_fires_in_a_row>>
\* the variables of the specifications that follow SpecAgg
mvars == <<allowed_chats, m_pc, m_dirs, m_store_ok, m_sink_raises, chat_ids, m_idx,
           execution_report, m_calls, m_sends, m_counted, m_raised>>
tvars == <<store_now, store_files, store_dirs, t_saves, t_last, t_prev>>
rvars == <<r_pc, r_now, r_found, r_files, r_call, r_result>>
gvars == <<g_pc, g_period, g_messages, g_api_key, g_api, g_api_calls, g_posts, g_summary,
           g_pass>>
kvars == <<k_pc, k_messages, k_period_messages, k_user_stats, k_top_users>>
ovars == <<o_pc, o_utc, o_offset_hours, o_target, o_local_now, o_seconds, o_loaded_day>>
zvars == <<z_running, z_pc, z_phase, z_day, z_fired>>
cvars == <<c_pc, c_file, c_messages, c_saves, c_held, c_read, c_reads>>
yvars == <<ovars, zvars, cvars>>
xvars == <<rvars, gvars, kvars, yvars>>
latervars == <<uvars, svars, mvars, tvars, xvars>>

\* ------------------------------------------------ strings and times of day
\* code point of a character of a "HH:MM" string
Ord(c) ==
    CASE c = "0" -> 48 [] c = "1" -> 49 [] c = "2" -> 50 [] c = "3" -> 51
      [] c = "4" -> 52 [] c = "5" -> 53 [] c = "6" -> 54 [] c = "7" -> 55
      [] c = "8" -> 56 [] c = "9" -> 57 [] c = ":" -> 58

\* Python str <= str: lexicographic by code point, a proper prefix is smaller
RECURSIVE StrLeq(_, _)
StrLeq(a, b) ==
    IF a = <<>> THEN TRUE
    ELSE IF b = <<>> THEN FALSE
    ELSE IF Ord(Head(a)) < Ord(Head(b)) THEN TRUE
    ELSE IF Ord(Head(a)) > Ord(Head(b)) THEN FALSE
    ELSE StrLeq(Tail(a), Tail(b))

\* str.split(sep)
RECURSIVE Split(_, _)
Split(s, sep) ==
    IF s = <<>> THEN << <<>> >>
    ELSE LET rest == Split(Tail(s), sep)
         IN  IF Head(s) = sep
             THEN << <<>> >> \o rest
             ELSE << <<Head(s)>> \o Head(rest) >> \o Tail(rest)

\* int(digits)
RECURSIVE ParseInt(_)
ParseInt(s) ==
    IF s = <<>> THEN 0
    ELSE ParseInt(SubSeq(s, 1, Len(s) - 1)) * 10 + (Ord(s[Len(s)]) - 48)

SecondsPerDay == 86400

\* datetime.time(hour, minute, second) as seconds since midnight
TimeOfDay(h, m, s) == h * 3600 + m * 60 + s

\* start_hour, start_minute = map(int, start_time.split(':')); time(hour, minute)
ParseHM(str) ==
    LET parts == Split(str, ":")
    IN  TimeOfDay(ParseInt(parts[1]), ParseInt(parts[2]), 0)

\* ------------------------------------------------------------- messages
\* A message is [isdict, user, ts].  ts.kind is
\*   "naive"      ISO timestamp without zone (what save_message writes)
\*   "aware"      ISO timestamp with 'Z' or '+hh:mm' (ts.utcoff hours)
\*   "missing"    no 'timestamp' key, or an empty / None value
\*   "unparsable" a value datetime.fromisoformat rejects
\* isdict = FALSE is a JSON element that is not an object (msg.get raises).
Msg(u, k, t, o) == [isdict |-> TRUE, user |-> u, ts |-> [kind |-> k, tod |-> t, utcoff |-> o]]
NaiveMsg(u, t) == Msg(u, "naive", t, 0)
AwareMsg(u, t, o) == Msg(u, "aware", t, o)
NoTsMsg(u) == Msg(u, "missing", 0, 0)
BadTsMsg(u) == Msg(u, "unparsable", 0, 0)
NonDictMsg == [isdict |-> FALSE, user |-> "", ts |-> [kind |-> "missing", tod |-> 0, utcoff |-> 0]]

\* the timestamp parses: the message reaches the range test
Parsable(msg) == msg.isdict /\ msg.ts.kind \in {"naive", "aware"}

\* local_time.time(): the time of day the range test sees
MsgTimeOnly(msg) ==
    IF msg.ts.kind = "aware"
    THEN (msg.ts.tod - msg.ts.utcoff * 3600 + host_utc_offset * 3600) % SecondsPerDay
    ELSE msg.ts.tod

\* ------------------------------------- _filter_messages_by_time_range
\* the range test of one parsed message; the wrap decision compares the
\* two string arguments, the membership test compares the parsed times
InTimeRange(t, start_time, end_time) ==
    LET start_dt == ParseHM(start_time)
        end_dt   == ParseHM(end_time)
    IN  IF StrLeq(start_time, end_time)
        THEN start_dt <= t /\ t <= end_dt
        ELSE t >= start_dt \/ t < end_dt

\* a variant in which a message that cannot be parsed ends the loop
RECURSIVE FilterStopAtMalformed(_, _, _)
FilterStopAtMalformed(msgs, start_time, end_time) ==
    IF msgs = <<>> THEN <<>>
    ELSE IF ~Parsable(Head(msgs)) THEN <<>>
    ELSE LET rest == FilterStopAtMalformed(Tail(msgs), start_time, end_time)
         IN  IF InTimeRange(MsgTimeOnly(Head(msgs)), start_time, end_time)
             THEN <<Head(msgs)>> \o rest
             ELSE rest

\* the loop over messages: a non-dict element, a missing timestamp and a
\* parse error all 'continue'; a parsed message is kept iff it is in range
RECURSIVE FilterMessagesByTimeRange(_, _, _)
FilterMessagesByTimeRange(msgs, start_time, end_time) ==
    IF msgs = <<>> THEN <<>>
    ELSE LET msg  == Head(msgs)
             rest == FilterMessagesByTimeRange(Tail(msgs), start_time, end_time)
         IN  IF ~msg.isdict THEN rest
             ELSE IF msg.ts.kind = "missing" THEN rest
             ELSE IF msg.ts.kind = "unparsable" THEN rest
             ELSE IF InTimeRange(MsgTimeOnly(msg), start_time, end_time)
                  THEN <<msg>> \o rest
                  ELSE rest

\* time_periods of send_daily_summary
PeriodNames == <<"Morning", "Afternoon", "Evening", "LateNight">>
time_periods ==
    << [name |-> "Morning",   start |-> <<"0","6",":","0","0">>, end |-> <<"1","2",":","0","0">>],
       [name |-> "Afternoon", start |-> <<"1","2",":","0","0">>, end |-> <<"1","8",":","0","0">>],
       [name |-> "Evening",   start |-> <<"1","8",":","0","0">>, end |-> <<"2","3",":","5","9">>],
       [name |-> "LateNight", start |-> <<"0","0",":","0","0">>, end |-> <<"0","6",":","0","0">>] >>

\* ------------------------------------------------------- Config (config.py)
\* the attributes a Config object has: its instance fields, methods and
\* properties; any other attribute access raises AttributeError
ConfigAttributes ==
    { "config_path", "_config", "load_config", "save_config", "get_default_config",
      "get", "set", "bot_token", "allowed_chats", "allow_bot_messages", "api_base",
      "api_key", "model", "data_dir", "daily_summary_enabled", "daily_summary_time",
      "manual_summary_message_count", "manual_summary_hours", "timezone_offset_hours" }

\* evaluating config.<name> raises AttributeError
ConfigAttrRaises(name) == name \notin ConfigAttributes

\* ------------------------------------------- MessageStorage.load_messages
\* The partition file is [kind, msgs]:
\*   "absent"      no file                       -> []
\*   "json"        a JSON list (msgs)            -> msgs
\*   "corrupt"     json.JSONDecodeError/IOError  -> [] (caught)
\*   "undecodable" bytes that are not UTF-8: UnicodeDecodeError, which the
\*                 except clause of load_messages does not name -> raises
FileOf(k, m) == [kind |-> k, msgs |-> m]
LoadRaises(file) == file.kind = "undecodable"
load_messages(file) == IF file.kind = "json" THEN file.msgs ELSE <<>>

\* --------------------------------------------- the summarizer's return
\* What generate_period_summary hands back to the pass: a str, seen as its
\* sequence of tokens (only the leading token matters to startswith), or a
\* non-empty list (a 'content' that is a list of parts is returned as is).
ErrorMarker == "Error"
NoMessagesMarker == "NoMessages"
StrValue(toks) == [type |-> "str", toks |-> toks]
SummaryValues ==
    { StrValue(<<"Topics", "...">>), StrValue(<<ErrorMarker, ":", "...">>),
      StrValue(<<NoMessagesMarker, "...">>), StrValue(<<>>),
      [type |-> "list", toks |-> <<"part">>] }

\* history value for a period whose summarizer was not called
NoSummary == [type |-> "none", toks |-> <<>>]

\* bool(summary)
Truthy(v) == v.toks # <<>>
\* summary.startswith(prefix) raises AttributeError unless summary is a str
StartsWithRaises(v) == v.type # "str"
StartsWith(v, prefix) == Len(v.toks) >= 1 /\ v.toks[1] = prefix

\* the branch of lines 553-571 taken for a summary
\*   "empty"   falsy summary: empty-result error entry
\*   "raise"   startswith raised: the period's except clause
\*   "error"   error marker: error entry
\*   "skip"    no-messages marker: nothing
\*   "section" the summary is sent and counted
ClassifySummary(v) ==
    IF ~Truthy(v) THEN "empty"
    ELSE IF StartsWithRaises(v) THEN "raise"
    ELSE IF StartsWith(v, ErrorMarker) THEN "error"
    ELSE IF ~StartsWith(v, NoMessagesMarker) THEN "section"
    ELSE "skip"

\* --------------------------------------------------- send_daily_summary
\* error entries: [period, kind]; the text after the period name tells the
\* kinds apart: "summary_error" (line 556), "empty_result" (568),
\* "exception" (577), and "fatal" (625, no period name)
ErrEntry(name, kind) == [period |-> name, kind |-> kind]

InitialResult ==
    [status |-> "failed", total_messages |-> 0, periods_processed |-> 0,
     errors |-> <<>>, summary_sent |-> FALSE]

\* lines 522-523 without the assignment of the status
NoMessagesResultStatusKept(res) == [res EXCEPT !.summary_sent = TRUE]

\* lines 522-523: the report returned for a day without messages
NoMessagesResult(res) == [res EXCEPT !.status = "no_messages", !.summary_sent = TRUE]

\* a status rule that looks only at the processed count
FinalStatusIgnoringErrors(processed, errs) ==
    IF processed > 0 THEN "success" ELSE "no_messages"

\* lines 611-615: the status of a pass that reached the statistics
FinalStatus(processed, errs) ==
    IF processed > 0
    THEN (IF errs = <<>> THEN "success" ELSE "partial")
    ELSE "no_messages"

\* a top-level except clause that logs without recording
TopLevelExceptUnrecorded(res) == res

\* lines 624-628: the top-level except clause records the failure; the
\* status is whatever the report holds at that point
TopLevelExcept(res) == [res EXCEPT !.errors = Append(@, ErrEntry("", "fatal"))]

\* lines 586-589: msg.get raises on an element that is not a dict
StatsRaises(msgs) == \E k \in DOMAIN msgs : ~msgs[k].isdict

\* ------------------------------------------------------------ input sets
HostOffsets == {0, 8}

SeqsUpTo(S, n) == UNION {[1..k -> S] : k \in 0..n}

\* start/end arguments: the four periods' strings, the tests' strings, and
\* hours written without a leading zero (int() accepts them)
TimeStrs ==
    { <<"0","0",":","0","0">>, <<"0","6",":","0","0">>, <<"0","8",":","0","0">>,
      <<"1","2",":","0","0">>, <<"1","8",":","0","0">>, <<"2","2",":","0","0">>,
      <<"2","3",":","5","9">>, <<"9",":","0","0">>, <<"1","0",":","0","0">> }

FilterTimes ==
    { TimeOfDay(1, 30, 0), TimeOfDay(6, 0, 0), TimeOfDay(8, 30, 0),
      TimeOfDay(10, 30, 0), TimeOfDay(14, 30, 0), TimeOfDay(23, 30, 0) }

FilterMsgs ==
    {NaiveMsg("u1", t) : t \in FilterTimes}
      \cup {AwareMsg("u1", TimeOfDay(8, 30, 0), 0), NoTsMsg("u1"), BadTsMsg("u1"), NonDictMsg}

WindowHours == {0, 5, 6, 11, 12, 17, 18, 23}
WindowMinutes == {0, 30, 59}
WindowSeconds == {0, 1, 59}
WindowTimes == {TimeOfDay(h, m, s) : h \in WindowHours, m \in WindowMinutes, s \in WindowSeconds}
WindowMsgs == {NaiveMsg("u1", t) : t \in WindowTimes} \cup {NoTsMsg("u1"), BadTsMsg("u1")}

\* events of one day: one inside LateNight, Morning and Evening, one on the
\* 06:00:00 boundary, one on the 12:00:00 seam of Morning and Afternoon, one
\* in the last minute of the day, and an element that is not a JSON object
DayMsgs ==
    { NaiveMsg("u1", TimeOfDay(1, 0, 0)),  NaiveMsg("u2", TimeOfDay(6, 0, 0)),
      NaiveMsg("u1", TimeOfDay(8, 30, 0)), NaiveMsg("u1", TimeOfDay(12, 0, 0)),
      NaiveMsg("u2", TimeOfDay(19, 0, 0)), NaiveMsg("u1", TimeOfDay(23, 59, 30)),
      NonDictMsg }

\* save_message appends with the current time: stored timestamps never decrease
TimeSorted(msgs) ==
    \A i, j \in DOMAIN msgs :
        (i < j /\ Parsable(msgs[i]) /\ Parsable(msgs[j])) => msgs[i].ts.tod <= msgs[j].ts.tod

DayFiles ==
    {FileOf("absent", <<>>), FileOf("corrupt", <<>>), FileOf("undecodable", <<>>)}
      \cup {FileOf("json", m) : m \in {x \in SeqsUpTo(DayMsgs, MaxDayMsgs) : TimeSorted(x)}}

\* ------------------------------------------------------------ SpecFilter
FilterParked == f_pc = "off" /\ f_start = <<>> /\ f_end = <<>> /\ f_messages = <<>> /\ f_result = <<>>
WindowsParked == w_pc = "off" /\ w_messages = <<>> /\ w_selected = <<>>

AggParked ==
    /\ a_pc = "off" /\ day_file = <<>> /\ messages = <<>> /\ period_idx = 0
    /\ result = <<>> /\ error_messages = <<>> /\ total_messages_processed = 0
    /\ sent = <<>> /\ ai_calls = <<>> /\ visited = <<>> /\ fatal = FALSE

UntilParked == u_pc = "off" /\ u_now = <<>> /\ u_target = 0 /\ u_result = 0
SchedParked ==
    /\ s_pc = "off" /\ running = FALSE /\ clock = 0 /\ target_time = 0 /\ error_count = 0
    /\ seconds_to_wait = 0 /\ wait_time = 0 /\ s_target_dt = 0 /\ computed_at = 0
    /\ fires = <<>> /\ stop_called = FALSE /\ sleeps_after_stop = 0
    /\ raised_in_a_row = 0 /\ failed_fires_in_a_row = 0
MultiParked ==
    /\ allowed_chats = {} /\ m_pc = "off" /\ m_dirs = <<>> /\ m_store_ok = TRUE /\ m_sink_raises = FALSE
    /\ chat_ids = <<>> /\ m_idx = 0 /\ execution_report = <<>> /\ m_calls = <<>>
    /\ m_sends = <<>> /\ m_counted = <<>> /\ m_raised = {}
StoreParked ==
    /\ store_now = 0 /\ store_files = <<>> /\ store_dirs = {} /\ t_saves = 0
    /\ t_last = <<>> /\ t_prev = <<>>
ReadersParked ==
    /\ r_pc = "off" /\ r_now = 0 /\ r_found = <<>> /\ r_files = <<>> /\ r_call = <<>>
    /\ r_result = <<>>
SummarizerParked ==
    /\ g_pc = "off" /\ g_period = "" /\ g_messages = <<>> /\ g_api_key = FALSE /\ g_api = ""
    /\ g_api_calls = 0 /\ g_posts = 0 /\ g_summary = <<>> /\ g_pass = <<>>
RankingParked ==
    /\ k_pc = "off" /\ k_messages = <<>> /\ k_period_messages = <<>> /\ k_user_stats = <<>>
    /\ k_top_users = <<>>
OffsetParked ==
    /\ o_pc = "off" /\ o_utc = 0 /\ o_offset_hours = 0 /\ o_target = 0 /\ o_local_now = 0
    /\ o_seconds = 0 /\ o_loaded_day = 0
RestartParked ==
    /\ z_running = FALSE /\ z_pc = <<>> /\ z_phase = "" /\ z_day = 0 /\ z_fired = <<>>
RaceParked ==
    /\ c_pc = "off" /\ c_file = <<>> /\ c_messages = <<>> /\ c_saves = 0 /\ c_held = <<>>
    /\ c_read = <<>> /\ c_reads = 0
MoreParked == OffsetParked /\ RestartParked /\ RaceParked
ExtraParked == ReadersParked /\ SummarizerParked /\ RankingParked /\ MoreParked
LaterParked == UntilParked /\ SchedParked /\ MultiParked /\ StoreParked /\ ExtraParked

InitFilter ==
    /\ f_pc = "ready"
    /\ f_start \in TimeStrs
    /\ f_end \in TimeStrs
    /\ f_messages \in SeqsUpTo(FilterMsgs, MaxFilterMsgs)
    /\ f_result = <<>>
    /\ host_utc_offset \in HostOffsets
    /\ WindowsParked
    /\ AggParked
    /\ LaterParked

\* one call of _filter_messages_by_time_range(messages, start_time, end_time)
CallFilter ==
    /\ f_pc = "ready"
    /\ f_result' = FilterMessagesByTimeRange(f_messages, f_start, f_end)
    /\ f_pc' = "done"
    /\ UNCHANGED <<f_start, f_end, f_messages, host_utc_offset, wvars, avars, latervars>>

NextFilter == CallFilter

\* ----------------------------------------------------------- SpecWindows
InitWindows ==
    /\ w_pc = "ready"
    /\ w_messages \in SeqsUpTo(WindowMsgs, MaxWindowMsgs)
    /\ w_selected = <<>>
    /\ host_utc_offset = 0
    /\ FilterParked
    /\ AggParked
    /\ LaterParked

\* the filter calls of the period loop of send_daily_summary, one per period
SplitDay ==
    /\ w_pc = "ready"
    /\ w_selected' = [i \in 1..Len(time_periods) |->
                        FilterMessagesByTimeRange(w_messages, time_periods[i].start, time_periods[i].end)]
    /\ w_pc' = "done"
    /\ UNCHANGED <<w_messages, host_utc_offset, fvars, avars, latervars>>

NextWindows == SplitDay

\* --------------------------------------------------------------- SpecAgg
InitAgg ==
    /\ a_pc = "start"
    /\ day_file \in DayFiles
    /\ messages = <<>>
    /\ period_idx = 0
    /\ result = InitialResult
    /\ error_messages = <<>>
    /\ total_messages_processed = 0
    /\ sent = <<>>
    /\ ai_calls = <<>>
    /\ visited = <<>>
    /\ fatal = FALSE
    /\ host_utc_offset = 0
    /\ FilterParked
    /\ WindowsParked
    /\ LaterParked

\* lines 509-514 raise, lines 624-644: load_messages raises, the top-level
\* except clause records it, notifies the chat and returns the report
LoadFails ==
    /\ a_pc = "start"
    /\ LoadRaises(day_file)
    /\ result' = TopLevelExcept(result)
    /\ sent' = Append(sent, "error_notification")
    /\ fatal' = TRUE
    /\ a_pc' = "done"
    /\ UNCHANGED <<day_file, messages, period_idx, error_messages,
                   total_messages_processed, ai_calls, visited>>
    /\ UNCHANGED <<fvars, wvars, host_utc_offset, latervars>>

\* lines 514-524: nothing loaded, the no-messages notice is sent and the
\* report returned
LoadEmpty ==
    /\ a_pc = "start"
    /\ ~LoadRaises(day_file)
    /\ load_messages(day_file) = <<>>
    /\ messages' = load_messages(day_file)
    /\ sent' = Append(sent, "no_messages_notice")
    /\ result' = NoMessagesResult(result)
    /\ a_pc' = "done"
    /\ UNCHANGED <<day_file, period_idx, error_messages,
                   total_messages_processed, ai_calls, visited, fatal>>
    /\ UNCHANGED <<fvars, wvars, host_utc_offset, latervars>>

\* lines 514-543: messages loaded, the header is sent, the period loop starts
LoadDay ==
    /\ a_pc = "start"
    /\ ~LoadRaises(day_file)
    /\ load_messages(day_file) # <<>>
    /\ messages' = load_messages(day_file)
    /\ result' = [result EXCEPT !.total_messages = Len(load_messages(day_file))]
    /\ sent' = Append(sent, "header")
    /\ period_idx' = 1
    /\ a_pc' = "periods"
    /\ UNCHANGED <<day_file, error_messages, total_messages_processed,
                   ai_calls, visited, fatal>>
    /\ UNCHANGED <<fvars, wvars, host_utc_offset, latervars>>

\* the messages of the period the loop is at
PeriodMessages ==
    FilterMessagesByTimeRange(messages, time_periods[period_idx].start,
                              time_periods[period_idx].end)

\* end of one iteration of the loop at line 545
NextPeriod ==
    /\ period_idx' = period_idx + 1
    /\ a_pc' = IF period_idx = Len(time_periods) THEN "stats" ELSE "periods"

\* lines 547-549: a period without messages: no summarizer call, no delay
SkipEmptyPeriod ==
    /\ a_pc = "periods"
    /\ PeriodMessages = <<>>
    /\ visited' = Append(visited, [name |-> time_periods[period_idx].name, n |-> 0,
                                   summary |-> NoSummary, raised |-> FALSE])
    /\ NextPeriod
    /\ UNCHANGED <<day_file, messages, result, error_messages,
                   total_messages_processed, sent, ai_calls, fatal>>
    /\ UNCHANGED <<fvars, wvars, host_utc_offset, latervars>>

\* the error entries one iteration appends: the entry of the summary's
\* branch, then the entry of the period's except clause if the body raised
PeriodErrors(name, class, raised) ==
    (IF class = "error" THEN <<ErrEntry(name, "summary_error")>>
     ELSE IF class = "empty" THEN <<ErrEntry(name, "empty_result")>>
     ELSE <<>>)
    \o (IF raised THEN <<ErrEntry(name, "exception")>> ELSE <<>>)

\* every section adds the whole day's list to the total
CountedMessagesWholeDay(loaded, period_messages) == Len(loaded)
\* line 566: total_messages_processed += len(period_messages)
CountedMessages(loaded, period_messages) == Len(period_messages)

\* lines 547-581 for a period with messages: the summarizer is called, its
\* return classified, and line 574 evaluates
\* config.daily_summary_period_interval for the delay between periods
SummarizePeriod ==
    /\ a_pc = "periods"
    /\ PeriodMessages # <<>>
    /\ \E summary \in SummaryValues :
        LET name   == time_periods[period_idx].name
            class  == ClassifySummary(summary)
            raised == \/ class = "raise"
                      \/ ConfigAttrRaises("daily_summary_period_interval")
            errs   == PeriodErrors(name, class, raised)
        IN  /\ ai_calls' = Append(ai_calls, name)
            /\ result' = [result EXCEPT
                             !.errors = @ \o errs,
                             !.periods_processed = IF class = "section" THEN @ + 1 ELSE @]
            /\ error_messages' = error_messages \o errs
            /\ total_messages_processed' =
                   total_messages_processed
                     + (IF class = "section" THEN CountedMessages(messages, PeriodMessages)
                        ELSE 0)
            /\ sent' = IF class = "section" THEN Append(sent, name) ELSE sent
            /\ visited' = Append(visited, [name |-> name, n |-> Len(PeriodMessages),
                                           summary |-> summary, raised |-> raised])
    /\ NextPeriod
    /\ UNCHANGED <<day_file, messages, fatal>>
    /\ UNCHANGED <<fvars, wvars, host_utc_offset, latervars>>

\* lines 583-589 raise, lines 624-644: the statistics raise, the top-level
\* except clause records it
StatsFails ==
    /\ a_pc = "stats"
    /\ StatsRaises(messages)
    /\ result' = TopLevelExcept([result EXCEPT !.total_messages = total_messages_processed])
    /\ sent' = Append(sent, "error_notification")
    /\ fatal' = TRUE
    /\ a_pc' = "done"
    /\ UNCHANGED <<day_file, messages, period_idx, error_messages,
                   total_messages_processed, ai_calls, visited>>
    /\ UNCHANGED <<fvars, wvars, host_utc_offset, latervars>>

\* lines 583-622: statistics, status, the statistics text is sent and the
\* report returned
Finish ==
    /\ a_pc = "stats"
    /\ ~StatsRaises(messages)
    /\ result' = [result EXCEPT
                     !.total_messages = total_messages_processed,
                     !.status = FinalStatus(total_messages_processed, error_messages),
                     !.summary_sent = TRUE]
    /\ LET text == IF total_messages_processed > 0 THEN "statistics" ELSE "no_topics"
       IN  sent' = Append(sent, text)
    /\ a_pc' = "done"
    /\ UNCHANGED <<day_file, messages, period_idx, error_messages,
                   total_messages_processed, ai_calls, visited, fatal>>
    /\ UNCHANGED <<fvars, wvars, host_utc_offset, latervars>>

NextAgg ==
    \/ LoadFails
    \/ LoadEmpty
    \/ LoadDay
    \/ SkipEmptyPeriod
    \/ SummarizePeriod
    \/ StatsFails
    \/ Finish

\* ------------------------------------------------------------- SpecUntil
\* resolution of datetime.now(): ticks per second
TicksPerSecond == 2
DayTicks == SecondsPerDay * TicksPerSecond

\* a naive datetime as ticks since 00:00:00 of day 0
DateTime(day, tod) == day * DayTicks + tod
\* local_now.date()
DateOf(now) == now \div DayTicks

\* int(delta.total_seconds()): truncation toward zero
IntSeconds(ticks) ==
    IF ticks >= 0 THEN ticks \div TicksPerSecond ELSE -((-ticks) \div TicksPerSecond)

IsDigits(s) == s # <<>> /\ \A i \in DOMAIN s : s[i] # ":"

\* DailySummaryScheduler.parse_time: "HH:MM" -> time(hour, minute), and
\* time(23, 59) when the unpacking, int() or time() raises ValueError
parse_time(time_str) ==
    LET parts == Split(time_str, ":")
    IN  IF /\ Len(parts) = 2
           /\ IsDigits(parts[1]) /\ IsDigits(parts[2])
           /\ ParseInt(parts[1]) <= 23 /\ ParseInt(parts[2]) <= 59
        THEN TimeOfDay(ParseInt(parts[1]), ParseInt(parts[2]), 0)
        ELSE TimeOfDay(23, 59, 0)

\* the roll-over test written with > : now == target is not rolled over
SecondsUntilStrictRollover(now, target) ==
    LET target_today == DateTime(DateOf(now), target * TicksPerSecond)
        target_dt == IF now > target_today THEN target_today + DayTicks ELSE target_today
    IN  IntSeconds(target_dt - now)

\* DailySummaryScheduler.seconds_until_target_time with datetime.now() = now
seconds_until_target_time(now, target) ==
    LET target_today == DateTime(DateOf(now), target * TicksPerSecond)
        target_dt == IF now >= target_today THEN target_today + DayTicks ELSE target_today
    IN  IntSeconds(target_dt - now)

\* daily_summary_time settings: the default, midnight, noon, an hour without
\* leading zero, and two values parse_time rejects
ConfigTimeStrs ==
    { <<"2","3",":","5","9">>, <<"0","0",":","0","0">>, <<"1","2",":","0","0">>,
      <<"9",":","0","0">>, <<"2","5",":","0","0">>, <<"1","2","0","0">> }

UntilHours == {0, 11, 12, 23}
UntilMinutes == {0, 54, 59}
UntilSeconds == {0, 59}
UntilNows ==
    { DateTime(0, TimeOfDay(h, m, sec) * TicksPerSecond + f) :
        h \in UntilHours, m \in UntilMinutes, sec \in UntilSeconds, f \in {0, TicksPerSecond - 1} }

InitUntil ==
    /\ u_pc = "ready"
    /\ u_now \in UntilNows
    /\ u_target \in {parse_time(str) : str \in ConfigTimeStrs}
    /\ u_result = 0
    /\ host_utc_offset = 0
    /\ FilterParked
    /\ WindowsParked
    /\ AggParked
    /\ SchedParked
    /\ MultiParked
    /\ StoreParked
    /\ ExtraParked

CallSecondsUntil ==
    /\ u_pc = "ready"
    /\ u_result' = seconds_until_target_time(u_now, u_target)
    /\ u_pc' = "done"
    /\ UNCHANGED <<u_now, u_target, host_utc_offset, fvars, wvars, avars, svars, mvars, tvars, xvars>>

NextUntil == CallSecondsUntil


\* ------------------------------------------------------------- SpecSched
\* days of host clock the loop is followed for
MaxDays == 3

\* line 220: at most this many seconds are waited in one go, and line 272:
\* the chunked wait stops this many seconds before the target
DirectWaitSeconds == 60
\* line 277: length of one chunk of the long wait
ChunkSeconds == 60
\* lines 262-264: extra wait once the fire has failed this many times
PenaltyThreshold == 3
PenaltySeconds == 600
\* line 268: wait after every fire
CooldownSeconds == 60
\* lines 291-299: ceiling of the error counter and wait after an error below it
BackoffSeconds == 300
MaxIterationErrors == 5
\* line 291 written with > : the ceiling is passed before the loop stops
TooManyErrorsPastCeiling(count) == count > MaxIterationErrors
TooManyErrors(count) == count >= MaxIterationErrors

\* line 224 ignored: the flag is not read again after the wait
StoppedDuringWaitUnchecked(run) == FALSE
\* line 224: if not self.running: break
StoppedDuringWait(run) == ~run

Ticks(seconds) == seconds * TicksPerSecond

\* line 268 left out: the loop goes back to its head as soon as the fire ends
AfterCooldownSkipped(now) == now
\* line 268: threading.Event().wait(60) after every fire
AfterCooldown(now) == now + Ticks(CooldownSeconds)

\* target_dt of seconds_until_target_time: the occurrence it measures to
NextTargetDt(now, target) ==
    LET target_today == DateTime(DateOf(now), target * TicksPerSecond)
    IN  IF now >= target_today THEN target_today + DayTicks ELSE target_today

\* the default daily_summary_time of Config
DefaultSummaryTime == <<"2","3",":","5","9">>

\* instants at which start() is called, relative to the target on day 0:
\* three minutes before, 61.x s before, within the last second, exactly at it
StartNows ==
    LET t0 == DateTime(0, Ticks(parse_time(DefaultSummaryTime)))
    IN  { t0 - Ticks(180), t0 - Ticks(61) - 1, t0 - 1, t0 }

\* run time of one send_daily_summaries, in ticks: instantaneous, half a
\* minute, longer than a day
FireTicks == { 0, Ticks(30) + 1, Ticks(25 * 3600) }

FireRecord(target, now, late) ==
    [target_dt |-> target, began |-> now, ended |-> -1, after_stop |-> late]

InitSched ==
    /\ s_pc = "init"
    /\ running = FALSE
    /\ clock \in StartNows
    /\ target_time = parse_time(DefaultSummaryTime)
    /\ error_count = 0
    /\ seconds_to_wait = 0
    /\ wait_time = 0
    /\ s_target_dt = 0
    /\ computed_at = -1
    /\ fires = <<>>
    /\ stop_called = FALSE
    /\ sleeps_after_stop = 0
    /\ raised_in_a_row = 0
    /\ failed_fires_in_a_row = 0
    /\ host_utc_offset = 0
    /\ FilterParked
    /\ WindowsParked
    /\ AggParked
    /\ UntilParked
    /\ MultiParked
    /\ StoreParked
    /\ ExtraParked

SchedOthersUnchanged ==
    UNCHANGED <<fvars, wvars, avars, host_utc_offset, uvars, mvars, tvars, xvars>>

\* a wait that ends after stop() ran is counted
SleepEnded == sleeps_after_stop' = sleeps_after_stop + (IF stop_called THEN 1 ELSE 0)

\* start(): sets the flag and starts the thread
Start ==
    /\ s_pc = "init"
    /\ ~running
    /\ running' = TRUE
    /\ s_pc' = "head"
    /\ UNCHANGED <<clock, target_time, error_count, seconds_to_wait, wait_time, s_target_dt,
                   computed_at, fires, stop_called, sleeps_after_stop>>
    /\ UNCHANGED <<raised_in_a_row, failed_fires_in_a_row>>
    /\ SchedOthersUnchanged

\* stop(): clears the flag; the join (at most 10 s) changes nothing
Stop ==
    /\ s_pc \notin {"init", "exited"}
    /\ ~stop_called
    /\ running' = FALSE
    /\ stop_called' = TRUE
    /\ UNCHANGED <<s_pc, clock, target_time, error_count, seconds_to_wait, wait_time,
                   s_target_dt, computed_at, fires, sleeps_after_stop>>
    /\ UNCHANGED <<raised_in_a_row, failed_fires_in_a_row>>
    /\ SchedOthersUnchanged

\* line 211: the while test fails, the thread function returns
LoopExit ==
    /\ s_pc = "head"
    /\ ~running
    /\ s_pc' = "exited"
    /\ UNCHANGED <<running, clock, target_time, error_count, seconds_to_wait, wait_time,
                   s_target_dt, computed_at, fires, stop_called, sleeps_after_stop>>
    /\ UNCHANGED <<raised_in_a_row, failed_fires_in_a_row>>
    /\ SchedOthersUnchanged

\* lines 229-244: the counter is reset and send_daily_summaries is started
BeginFire(now, target) ==
    /\ error_count' = 0
    /\ fires' = Append(fires, FireRecord(target, now, stop_called))
    /\ s_pc' = "firing"

\* the chunks run all the way to the target
ChunkedWaitTimeToTarget(seconds) == seconds
\* line 272: wait_time = seconds_to_wait - 60
ChunkedWaitTime(seconds) == seconds - DirectWaitSeconds

\* lines 211-222 and 270-276: the iteration computes the wait and either
\* fires at once, starts the direct wait, or starts the first chunk
LoopHead ==
    /\ s_pc = "head"
    /\ running
    /\ clock < MaxDays * DayTicks
    /\ seconds_to_wait' = seconds_until_target_time(clock, target_time)
    /\ s_target_dt' = NextTargetDt(clock, target_time)
    /\ computed_at' = clock
    /\ IF seconds_to_wait' <= DirectWaitSeconds
       THEN IF seconds_to_wait' > 0
            THEN s_pc' = "prefire_wait" /\ UNCHANGED <<error_count, fires, wait_time>>
            ELSE BeginFire(clock, s_target_dt') /\ UNCHANGED wait_time
       ELSE /\ wait_time' = ChunkedWaitTime(seconds_to_wait')
            /\ s_pc' = "chunk_wait"
            /\ UNCHANGED <<error_count, fires>>
    /\ UNCHANGED <<running, clock, target_time, stop_called, sleeps_after_stop>>
    /\ UNCHANGED <<raised_in_a_row, failed_fires_in_a_row>>
    /\ SchedOthersUnchanged

\* lines 222-226: the direct wait ends; the flag is read again before firing
PreFireWaitEnds ==
    /\ s_pc = "prefire_wait"
    /\ clock' = clock + Ticks(seconds_to_wait)
    /\ SleepEnded
    /\ IF StoppedDuringWait(running)
       THEN s_pc' = "exited" /\ UNCHANGED <<error_count, fires>>
       ELSE BeginFire(clock', s_target_dt)
    /\ UNCHANGED <<running, target_time, seconds_to_wait, wait_time, s_target_dt, computed_at,
                   stop_called>>
    /\ UNCHANGED <<raised_in_a_row, failed_fires_in_a_row>>
    /\ SchedOthersUnchanged

\* lines 237-268: send_daily_summaries returns or raises after d ticks; a
\* raise counts an error and, from the third on, waits the penalty first
FireEnds ==
    /\ s_pc = "firing"
    /\ \E d \in FireTicks, raised \in BOOLEAN :
        /\ clock' = clock + d
        /\ fires' = [fires EXCEPT ![Len(fires)].ended = clock']
        /\ error_count' = IF raised THEN error_count + 1 ELSE error_count
        /\ s_pc' = IF raised /\ error_count' >= PenaltyThreshold THEN "penalty_wait" ELSE "cooldown"
        /\ failed_fires_in_a_row' = IF raised THEN failed_fires_in_a_row + 1 ELSE 0
    /\ UNCHANGED raised_in_a_row
    /\ UNCHANGED <<running, target_time, seconds_to_wait, wait_time, s_target_dt, computed_at,
                   stop_called, sleeps_after_stop>>
    /\ SchedOthersUnchanged

\* lines 264 and 268: the waits that follow a fire
PostFireWaitEnds ==
    /\ s_pc \in {"penalty_wait", "cooldown"}
    /\ IF s_pc = "penalty_wait"
       THEN clock' = clock + Ticks(PenaltySeconds) /\ s_pc' = "cooldown"
       ELSE clock' = AfterCooldown(clock) /\ s_pc' = "head"
    /\ SleepEnded
    /\ UNCHANGED <<running, target_time, error_count, seconds_to_wait, wait_time, s_target_dt,
                   computed_at, fires, stop_called>>
    \* the iteration is over without reaching line 285
    /\ raised_in_a_row' = IF s_pc' = "head" THEN 0 ELSE raised_in_a_row
    /\ UNCHANGED failed_fires_in_a_row
    /\ SchedOthersUnchanged

\* lines 276-279: one chunk ends; the while test decides on the next chunk
ChunkWaitEnds ==
    /\ s_pc = "chunk_wait"
    /\ LET chunk == IF wait_time < ChunkSeconds THEN wait_time ELSE ChunkSeconds
       IN  /\ clock' = clock + Ticks(chunk)
           /\ wait_time' = wait_time - chunk
    /\ SleepEnded
    /\ s_pc' = IF wait_time' > 0 /\ running THEN "chunk_wait" ELSE "head"
    /\ UNCHANGED <<running, target_time, error_count, seconds_to_wait, s_target_dt, computed_at,
                   fires, stop_called>>
    \* the iteration is over without reaching line 285
    /\ raised_in_a_row' = IF s_pc' = "head" THEN 0 ELSE raised_in_a_row
    /\ UNCHANGED failed_fires_in_a_row
    /\ SchedOthersUnchanged

\* a statement of the iteration raises: control reaches line 285
IterationRaises ==
    /\ s_pc = "head"
    /\ running
    /\ clock < MaxDays * DayTicks
    /\ s_pc' = "except"
    /\ UNCHANGED <<running, clock, target_time, error_count, seconds_to_wait, wait_time,
                   s_target_dt, computed_at, fires, stop_called, sleeps_after_stop>>
    /\ UNCHANGED <<raised_in_a_row, failed_fires_in_a_row>>
    /\ SchedOthersUnchanged

\* lines 285-299: the outer except clause
HandleIterationError ==
    /\ s_pc = "except"
    /\ error_count' = error_count + 1
    /\ IF TooManyErrors(error_count')
       THEN running' = FALSE /\ s_pc' = "exited"
       ELSE /\ running' = running
            /\ s_pc' = IF running THEN "backoff" ELSE "head"
    /\ UNCHANGED <<clock, target_time, seconds_to_wait, wait_time, s_target_dt, computed_at,
                   fires, stop_called, sleeps_after_stop>>
    /\ raised_in_a_row' = raised_in_a_row + 1
    /\ UNCHANGED failed_fires_in_a_row
    /\ SchedOthersUnchanged

\* line 299: the wait after an error ends
BackoffEnds ==
    /\ s_pc = "backoff"
    /\ clock' = clock + Ticks(BackoffSeconds)
    /\ SleepEnded
    /\ s_pc' = "head"
    /\ UNCHANGED <<running, target_time, error_count, seconds_to_wait, wait_time, s_target_dt,
                   computed_at, fires, stop_called>>
    /\ UNCHANGED <<raised_in_a_row, failed_fires_in_a_row>>
    /\ SchedOthersUnchanged

NextSched ==
    \/ Start
    \/ Stop
    \/ LoopExit
    \/ LoopHead
    \/ PreFireWaitEnds
    \/ FireEnds
    \/ PostFireWaitEnds
    \/ ChunkWaitEnds
    \/ IterationRaises
    \/ HandleIterationError
    \/ BackoffEnds

\* start() is called 61.x s before the target (a one-second chunk, then the
\* direct wait) or exactly at it (the target is a whole day away)
InitSchedLive ==
    /\ InitSched
    /\ LET t0 == DateTime(0, Ticks(parse_time(DefaultSummaryTime)))
       IN  clock \in {t0 - Ticks(61) - 1, t0}

\* the loop left alone: stop() is not called and no statement of an
\* iteration raises outside the fire
NextSchedLive ==
    \/ Start
    \/ LoopHead
    \/ PreFireWaitEnds
    \/ FireEnds
    \/ PostFireWaitEnds
    \/ ChunkWaitEnds


\* ------------------------------------------------------------- SpecMulti
\* most chat directories in the data directory
MaxChats == 3
Chats == 1..MaxChats

\* an entry of execution_report['errors']; chat 0 is an entry about no chat
MultiError(chat, kind) == [chat |-> chat, kind |-> kind]

\* lines 45-54
InitialExecutionReport ==
    [ total_chats |-> 0, successful |-> 0, partial |-> 0, failed |-> 0, no_messages |-> 0,
      chat_results |-> <<>>, errors |-> <<>> ]

\* lines 66-70 without the append: the report goes back unmarked
NoChatsReportUnmarked(report) == report
\* lines 66-70: the report returned for an empty chat list
NoChatsReport(report) ==
    [report EXCEPT !.errors = Append(@, MultiError(0, "no_chats"))]

\* partial reports counted with the failures
BucketOfPartialAsFailed(status) ==
    CASE status = "success" -> "successful"
      [] status = "no_messages" -> "no_messages"
      [] OTHER -> "failed"
\* lines 106-113: the counter a returned status increments
BucketOf(status) ==
    CASE status = "success" -> "successful"
      [] status = "partial" -> "partial"
      [] status = "no_messages" -> "no_messages"
      [] OTHER -> "failed"

\* execution_report[bucket] += 1
Increment(report, bucket) ==
    CASE bucket = "successful" -> [report EXCEPT !.successful = @ + 1]
      [] bucket = "partial" -> [report EXCEPT !.partial = @ + 1]
      [] bucket = "no_messages" -> [report EXCEPT !.no_messages = @ + 1]
      [] bucket = "failed" -> [report EXCEPT !.failed = @ + 1]

\* the except clause leaving the chat loop: the later chats are skipped
IndexAfterRaiseAbandons(idx, n) == n + 1
\* lines 124-134: the except clause is inside the for loop, the next chat follows
IndexAfterRaise(idx, n) == idx + 1

\* what bot_instance.send_daily_summary(chat_id) does: it returns a report
\* with one of the four statuses (an error entry with partial and failed), or
\* raises
PassOutcomes ==
    { [raised |-> FALSE, status |-> "success", errors |-> 0],
      [raised |-> FALSE, status |-> "partial", errors |-> 1],
      [raised |-> FALSE, status |-> "failed", errors |-> 1],
      [raised |-> FALSE, status |-> "no_messages", errors |-> 0],
      [raised |-> TRUE, status |-> "", errors |-> 0] }

\* one safe_send_message call per chat of the list
SendAll(ids, kind) == [i \in DOMAIN ids |-> [chat |-> ids[i], kind |-> kind]]

\* get_chat_dir names a directory str(chat_id), so get_chat_list returns no
\* chat id twice
NoRepeats(ids) == \A i, j \in DOMAIN ids : i # j => ids[i] # ids[j]

InitMulti ==
    /\ m_pc = "start"
    \* the allow-list of this run; the directories may come from runs with
    \* another allow-list
    /\ allowed_chats \in SUBSET Chats
    /\ m_dirs \in {ids \in SeqsUpTo(Chats, MaxChats) : NoRepeats(ids)}
    /\ m_store_ok \in BOOLEAN
    /\ m_sink_raises \in BOOLEAN
    /\ chat_ids = <<>>
    /\ m_idx = 0
    /\ execution_report = InitialExecutionReport
    /\ m_calls = <<>>
    /\ m_sends = <<>>
    /\ m_counted = <<>>
    /\ m_raised = {}
    /\ host_utc_offset = 0
    /\ FilterParked
    /\ WindowsParked
    /\ AggParked
    /\ UntilParked
    /\ SchedParked
    /\ StoreParked
    /\ ExtraParked

MultiOthersUnchanged ==
    UNCHANGED <<fvars, wvars, avars, host_utc_offset, uvars, svars, tvars, xvars>>

\* lines 56-61 raise, lines 177-204: get_chat_list raises, the top-level
\* except clause records it; its own get_chat_list raises again and the
\* report is returned
ListChatsFails ==
    /\ m_pc = "start"
    /\ ~m_store_ok
    /\ execution_report' = [execution_report EXCEPT !.errors = Append(@, MultiError(0, "critical"))]
    /\ m_pc' = "done"
    /\ UNCHANGED <<allowed_chats, m_dirs, m_store_ok, m_sink_raises, chat_ids, m_idx, m_calls, m_sends,
                   m_counted, m_raised>>
    /\ MultiOthersUnchanged

\* lines 61-70: the chat list is empty
ListNoChats ==
    /\ m_pc = "start"
    /\ m_store_ok
    /\ m_dirs = <<>>
    /\ chat_ids' = m_dirs
    /\ execution_report' = NoChatsReport([execution_report EXCEPT !.total_chats = Len(m_dirs)])
    /\ m_pc' = "done"
    /\ UNCHANGED <<allowed_chats, m_dirs, m_store_ok, m_sink_raises, m_idx, m_calls, m_sends, m_counted,
                   m_raised>>
    /\ MultiOthersUnchanged

\* lines 61-78: the chat list is read and every chat is sent the start notice;
\* a send that raises is recorded in errors
ListChats ==
    /\ m_pc = "start"
    /\ m_store_ok
    /\ m_dirs # <<>>
    /\ chat_ids' = m_dirs
    /\ m_sends' = m_sends \o SendAll(m_dirs, "start")
    /\ execution_report' =
         [execution_report EXCEPT
            !.total_chats = Len(m_dirs),
            !.errors = IF m_sink_raises
                       THEN @ \o [i \in DOMAIN m_dirs |-> MultiError(m_dirs[i], "start_notification")]
                       ELSE @]
    /\ m_idx' = 1
    /\ m_pc' = "chats"
    /\ UNCHANGED <<allowed_chats, m_dirs, m_store_ok, m_sink_raises, m_calls, m_counted, m_raised>>
    /\ MultiOthersUnchanged

\* lines 81-122: one chat whose send_daily_summary returns a report
ChatReturns ==
    /\ m_pc = "chats"
    /\ \E out \in {o \in PassOutcomes : ~o.raised} :
        LET chat == chat_ids[m_idx]
            bucket == BucketOf(out.status)
            counted == Increment(execution_report, bucket)
        IN  /\ m_sends' = Append(m_sends, [chat |-> chat, kind |-> "progress"])
            /\ m_calls' = Append(m_calls, chat)
            /\ m_counted' = Append(m_counted, [chat |-> chat, bucket |-> bucket])
            /\ execution_report' =
                 [counted EXCEPT
                    !.chat_results = @ \o << [chat |-> chat, status |-> out.status] >>,
                    !.errors = @ \o [i \in 1..out.errors |-> MultiError(chat, "pass_error")]]
            /\ m_idx' = m_idx + 1
            /\ m_pc' = IF m_idx' > Len(chat_ids) THEN "report" ELSE "chats"
    /\ UNCHANGED <<allowed_chats, m_dirs, m_store_ok, m_sink_raises, chat_ids, m_raised>>
    /\ MultiOthersUnchanged

\* lines 81-100 and 124-134: one chat whose send_daily_summary raises
ChatRaises ==
    /\ m_pc = "chats"
    /\ LET chat == chat_ids[m_idx]
       IN  /\ m_sends' = m_sends \o << [chat |-> chat, kind |-> "progress"],
                                       [chat |-> chat, kind |-> "failure"] >>
           /\ m_calls' = Append(m_calls, chat)
           /\ m_raised' = m_raised \cup {chat}
           /\ m_counted' = Append(m_counted, [chat |-> chat, bucket |-> "failed"])
           /\ execution_report' =
                [Increment(execution_report, "failed") EXCEPT
                   !.errors = Append(@, MultiError(chat, "pass_raised"))]
    /\ m_idx' = IndexAfterRaise(m_idx, Len(chat_ids))
    /\ m_pc' = IF m_idx' > Len(chat_ids) THEN "report" ELSE "chats"
    /\ UNCHANGED <<allowed_chats, m_dirs, m_store_ok, m_sink_raises, chat_ids>>
    /\ MultiOthersUnchanged

\* lines 137-175: the closing report goes to every chat and the report dict
\* is returned
SendReport ==
    /\ m_pc = "report"
    /\ m_sends' = m_sends \o SendAll(chat_ids, "report")
    /\ m_pc' = "done"
    /\ UNCHANGED <<allowed_chats, m_dirs, m_store_ok, m_sink_raises, chat_ids, m_idx, execution_report,
                   m_calls, m_counted, m_raised>>
    /\ MultiOthersUnchanged

NextMulti ==
    \/ ListChatsFails
    \/ ListNoChats
    \/ ListChats
    \/ ChatReturns
    \/ ChatRaises
    \/ SendReport


\* ------------------------------------------------------------- SpecStore
\* last day the store clock reaches (days are 0..MaxStoreDays)
MaxStoreDays == 1
\* most save_message calls in one behaviour
MaxSaves == 2

StoreChats == {1, 2}
StoreDays == 0..MaxStoreDays

\* instants the store clock steps through: midnight, noon and the last tick
\* of every day
StoreInstants ==
    { DateTime(d, tod) : d \in StoreDays, tod \in {0, Ticks(12 * 3600), DayTicks - 1} }
LaterInstants(now) == {t \in StoreInstants : t > now}
NextInstant(now) ==
    {t \in LaterInstants(now) : \A other \in LaterInstants(now) : t <= other}

\* message_info with message['timestamp'] = local_now.isoformat()
StoredMsg(id, now) ==
    [ isdict |-> TRUE, id |-> id, user |-> "u1",
      ts |-> [kind |-> "naive", day |-> DateOf(now),
              tod |-> (now % DayTicks) \div TicksPerSecond, utcoff |-> 0, at |-> now] ]

\* what open(file_path, 'w') and json.dump do: the file is written, open
\* raises IOError (the file is untouched), or the dump raises IOError after
\* open has truncated the file (what is left is not valid JSON)
WriteOutcomes == {"ok", "open_fails", "dump_fails"}

\* the new list put in front of the loaded one
WriteEventFirst(msgs, event) == <<event>> \o msgs
\* line 74: messages.append(message)
WriteEventLast(msgs, event) == Append(msgs, event)

\* the partition file after lines 76-80
FileAfterWrite(file, msgs, write) ==
    CASE write = "ok" -> FileOf("json", msgs)
      [] write = "open_fails" -> file
      [] write = "dump_fails" -> FileOf("corrupt", <<>>)

\* mkdir without exist_ok: an existing directory raises FileExistsError
ChatDirRaisesIfExists(dirs, chat) == chat \in dirs
\* get_chat_dir, line 50: mkdir(exist_ok=True) accepts an existing directory
ChatDirRaises(dirs, chat) == FALSE

\* the outcome of load_messages(chat, day): [raised, value]
LoadOutcome(files, dirs, chat, day) ==
    IF ChatDirRaises(dirs, chat) \/ LoadRaises(files[chat][day])
    THEN [raised |-> TRUE, value |-> <<>>]
    ELSE [raised |-> FALSE, value |-> load_messages(files[chat][day])]

NoCall == [op |-> "none"]
LoadCall(chat, day, today, out) ==
    [op |-> "load", chat |-> chat, day |-> day, today |-> today,
     raised |-> out.raised, value |-> out.value]
SaveCall(chat, event, path_day, today, raised, write) ==
    [op |-> "save", chat |-> chat, event |-> event, path_day |-> path_day,
     today |-> today, raised |-> raised, write |-> write,
     written |-> (~raised /\ write = "ok")]

\* partition files found when the process starts: at most one file of chat 1
\* is corrupt, unreadable or undecodable, every other file is missing
FaultyFiles ==
    { FileOf("absent", <<>>), FileOf("corrupt", <<>>), FileOf("unreadable", <<>>),
      FileOf("undecodable", <<>>) }

InitStore ==
    /\ store_now \in {t \in StoreInstants : DateOf(t) = 0}
    /\ \E found \in {f \in [StoreDays -> FaultyFiles] :
                        Cardinality({d \in StoreDays : f[d].kind # "absent"}) <= 1} :
         /\ store_files = [chat \in StoreChats |->
                             IF chat = 1 THEN found ELSE [d \in StoreDays |-> FileOf("absent", <<>>)]]
         /\ store_dirs = IF \E d \in StoreDays : found[d].kind # "absent" THEN {1} ELSE {}
    /\ t_saves = 0
    /\ t_last = NoCall
    /\ t_prev = NoCall
    /\ host_utc_offset = 0
    /\ FilterParked
    /\ WindowsParked
    /\ AggParked
    /\ UntilParked
    /\ SchedParked
    /\ MultiParked
    /\ ExtraParked

StoreOthersUnchanged ==
    UNCHANGED <<fvars, wvars, avars, host_utc_offset, uvars, svars, mvars, xvars>>

\* time passes between two storage calls
ClockStep ==
    /\ store_now' \in NextInstant(store_now)
    /\ t_last' = NoCall
    /\ t_prev' = NoCall
    /\ UNCHANGED <<store_files, store_dirs, t_saves>>
    /\ StoreOthersUnchanged

\* save_message(chat, message): get_today_file_path reads the clock for the
\* file name, get_local_time_with_offset reads it again for the day to load
\* and the timestamp (the clock may have stepped in between); the list
\* loaded for the second date is written to the file named by the first; an
\* IOError of the write is printed and swallowed
SaveMessage ==
    /\ t_saves < MaxSaves
    /\ \E chat \in StoreChats, local_now \in {store_now} \cup NextInstant(store_now),
          write \in WriteOutcomes :
        LET path_day == DateOf(store_now)
            local_today == DateOf(local_now)
            event == StoredMsg(t_saves + 1, local_now)
            loaded == LoadOutcome(store_files, store_dirs, chat, local_today)
            raised == ChatDirRaises(store_dirs, chat) \/ loaded.raised
        IN  /\ store_now' = local_now
            /\ store_dirs' = store_dirs \cup {chat}
            /\ store_files' =
                 IF raised
                 THEN store_files
                 ELSE [store_files EXCEPT ![chat][path_day] =
                         FileAfterWrite(@, WriteEventLast(loaded.value, event), write)]
            /\ t_last' = SaveCall(chat, event, path_day, local_today, raised, write)
    /\ t_prev' = t_last
    /\ t_saves' = t_saves + 1
    /\ StoreOthersUnchanged

\* load_messages(chat, day): get_file_path creates the chat directory, the
\* file is read
LoadMessages ==
    /\ \E chat \in StoreChats, day \in StoreDays :
        /\ t_last' = LoadCall(chat, day, DateOf(store_now),
                              LoadOutcome(store_files, store_dirs, chat, day))
        /\ store_dirs' = IF ChatDirRaises(store_dirs, chat) THEN store_dirs
                         ELSE store_dirs \cup {chat}
    /\ t_prev' = t_last
    /\ UNCHANGED <<store_now, store_files, t_saves>>
    /\ StoreOthersUnchanged

NextStore ==
    \/ ClockStep
    \/ SaveMessage
    \/ LoadMessages


\* ----------------------------------------------------------- SpecReaders
\* load_recent_messages / get_message_count, get_latest_messages and
\* delete_old_messages, each called once on a data directory that earlier
\* save_message calls have filled.

\* largest count asked of get_latest_messages
MaxReadCount == 3

\* line 120: range(30), the number of days get_latest_messages looks back,
\* today included
LookbackDays == 30

ReaderChats == {1, 2}
\* the day of the call, and the days that have a partition file: 30, 29, 2
\* and 1 days back, and the day itself
ReaderToday == LookbackDays + 1
ReaderDays == {ReaderToday - 30, ReaderToday - 29, ReaderToday - 2, ReaderToday - 1, ReaderToday}
\* times of day events were stored at: midnight and the last tick of a day
ReaderEventTods == {0, DayTicks - 1}
\* times of day of the call
ReaderNowTods == {0, Ticks(1800), Ticks(12 * 3600), DayTicks - 1}
ReaderHours == {0, 1, 24, 25, 48}
ReaderKeepDays == {0, 1, 29, 30}

AbsentFile == FileOf("absent", <<>>)
FileAt(files, chat, day) ==
    IF day \in DOMAIN files[chat] THEN files[chat][day] ELSE AbsentFile

\* msg['timestamp'] as an instant
TsOf(msg) == msg.ts.at

\* sorted(msgs, key=timestamp): stable insertion, ascending
RECURSIVE InsertAscending(_, _)
InsertAscending(sorted, msg) ==
    IF sorted = <<>> THEN <<msg>>
    ELSE IF TsOf(sorted[Len(sorted)]) <= TsOf(msg) THEN Append(sorted, msg)
    ELSE Append(InsertAscending(SubSeq(sorted, 1, Len(sorted) - 1), msg), sorted[Len(sorted)])
RECURSIVE SortAscending(_)
SortAscending(msgs) ==
    IF msgs = <<>> THEN <<>>
    ELSE InsertAscending(SortAscending(SubSeq(msgs, 1, Len(msgs) - 1)), msgs[Len(msgs)])

\* sorted(msgs, key=timestamp, reverse=True): stable, descending
RECURSIVE InsertDescending(_, _)
InsertDescending(sorted, msg) ==
    IF sorted = <<>> THEN <<msg>>
    ELSE IF TsOf(sorted[Len(sorted)]) >= TsOf(msg) THEN Append(sorted, msg)
    ELSE Append(InsertDescending(SubSeq(sorted, 1, Len(sorted) - 1), msg), sorted[Len(sorted)])
RECURSIVE SortDescending(_)
SortDescending(msgs) ==
    IF msgs = <<>> THEN <<>>
    ELSE InsertDescending(SortDescending(SubSeq(msgs, 1, Len(msgs) - 1)), msgs[Len(msgs)])

MinOf(a, b) == IF a < b THEN a ELSE b
\* messages[:count]
Prefix(msgs, count) == SubSeq(msgs, 1, MinOf(count, Len(msgs)))

\* line 99: range(max(0, hours // 24 + 1))
RecentDayCount(hours) == IF hours \div 24 + 1 > 0 THEN hours \div 24 + 1 ELSE 0

\* line 105: (now - msg_time).total_seconds() <= hours * 3600
WithinHours(msg, now, hours) == now - TsOf(msg) <= Ticks(hours * 3600)

RECURSIVE SelectWithinHours(_, _, _)
SelectWithinHours(msgs, now, hours) ==
    IF msgs = <<>> THEN <<>>
    ELSE (IF WithinHours(Head(msgs), now, hours) THEN <<Head(msgs)>> ELSE <<>>)
           \o SelectWithinHours(Tail(msgs), now, hours)

\* lines 99-108: the days today, today-1, ... are loaded in turn and their
\* messages inside the window collected; a load that raises ends the call
RECURSIVE RecentFromDay(_, _, _, _, _, _)
RecentFromDay(files, chat, now, hours, day_offset, days) ==
    IF day_offset >= days THEN [raised |-> FALSE, value |-> <<>>]
    ELSE LET file == FileAt(files, chat, DateOf(now) - day_offset)
             rest == RecentFromDay(files, chat, now, hours, day_offset + 1, days)
         IN  IF LoadRaises(file) \/ rest.raised
             THEN [raised |-> TRUE, value |-> <<>>]
             ELSE [raised |-> FALSE,
                   value |-> SelectWithinHours(load_messages(file), now, hours) \o rest.value]

load_recent_messages(files, chat, now, hours) ==
    LET got == RecentFromDay(files, chat, now, hours, 0, RecentDayCount(hours))
    IN  [raised |-> got.raised, value |-> SortAscending(got.value)]

get_message_count(files, chat, now, hours) ==
    LET got == load_recent_messages(files, chat, now, hours)
    IN  [raised |-> got.raised, value |-> Len(got.value)]

\* lines 120-126: the days today, today-1, ... are loaded in turn until
\* count messages are held or the lookback is used up
RECURSIVE LatestFromDay(_, _, _, _, _, _)
LatestFromDay(files, chat, today, count, day_offset, held) ==
    IF day_offset >= LookbackDays THEN [raised |-> FALSE, value |-> held]
    ELSE LET file == FileAt(files, chat, today - day_offset)
             now_held == held \o load_messages(file)
         IN  IF LoadRaises(file) THEN [raised |-> TRUE, value |-> <<>>]
             ELSE IF Len(now_held) >= count THEN [raised |-> FALSE, value |-> now_held]
             ELSE LatestFromDay(files, chat, today, count, day_offset + 1, now_held)

get_latest_messages(files, chat, now, count) ==
    LET got == LatestFromDay(files, chat, DateOf(now), count, 0, <<>>)
    IN  [raised |-> got.raised, value |-> Prefix(SortDescending(got.value), count)]

\* file_date <= cutoff_date: the file dated on the cutoff goes as well
OlderThanOrOnCutoff(file_date, cutoff_date) == file_date <= cutoff_date
\* line 140: if file_date < cutoff_date
OlderThanCutoff(file_date, cutoff_date) == file_date < cutoff_date

\* lines 132-144: every dated file of the chat's directory older than the
\* cutoff is unlinked, whatever it holds
delete_old_messages(files, chat, now, days_to_keep) ==
    LET cutoff_date == DateOf(now) - days_to_keep
    IN  [files EXCEPT ![chat] =
           [day \in DOMAIN files[chat] |->
              IF files[chat][day].kind # "absent" /\ OlderThanCutoff(day, cutoff_date)
              THEN AbsentFile ELSE files[chat][day]]]

ReaderEvent(day, tod) == StoredMsg(1, DateTime(day, tod))

\* the file save_message calls at the times of day tods have left for a day
ReaderDayFile(day, tods) ==
    IF tods = {} THEN AbsentFile
    ELSE FileOf("json", (IF 0 \in tods THEN <<ReaderEvent(day, 0)>> ELSE <<>>)
                          \o (IF DayTicks - 1 \in tods
                              THEN <<ReaderEvent(day, DayTicks - 1)>> ELSE <<>>))

\* files no save_message wrote: truncated JSON, bytes that are not UTF-8
ReaderFaultyFiles == {FileOf("corrupt", <<>>), FileOf("undecodable", <<>>)}

\* chat 2 holds one event in every day
ReaderOtherChatFiles == [day \in ReaderDays |-> FileOf("json", <<ReaderEvent(day, 0)>>)]

ReadCall(op, chat, arg) == [op |-> op, chat |-> chat, arg |-> arg]

InitReaders ==
    /\ r_pc = "ready"
    /\ r_now \in {DateTime(ReaderToday, tod) : tod \in ReaderNowTods}
    /\ \E stored \in [ReaderDays -> SUBSET ReaderEventTods], bad_day \in ReaderDays \cup {-1},
          bad \in ReaderFaultyFiles :
         \* nothing is stored after the call; at most one file is faulty
         /\ \A day \in ReaderDays : \A tod \in stored[day] : DateTime(day, tod) <= r_now
         /\ bad_day # -1 => stored[bad_day] = {}
         /\ bad_day = -1 => bad = FileOf("corrupt", <<>>)
         /\ r_found = [chat \in ReaderChats |->
                         IF chat = 2 THEN ReaderOtherChatFiles
                         ELSE [day \in ReaderDays |->
                                 IF day = bad_day THEN bad
                                 ELSE ReaderDayFile(day, stored[day])]]
    /\ r_files = r_found
    /\ r_call = [op |-> "none"]
    /\ r_result = [raised |-> FALSE, value |-> <<>>]
    /\ host_utc_offset = 0
    /\ FilterParked
    /\ WindowsParked
    /\ AggParked
    /\ UntilParked
    /\ SchedParked
    /\ MultiParked
    /\ StoreParked
    /\ SummarizerParked
    /\ RankingParked
    /\ MoreParked

ReadersOthersUnchanged ==
    UNCHANGED <<fvars, wvars, avars, host_utc_offset, uvars, svars, mvars, tvars, gvars, kvars,
                yvars>>

\* get_message_count(chat, hours)
CallGetMessageCount ==
    /\ r_pc = "ready"
    /\ \E hours \in ReaderHours :
         /\ r_call' = ReadCall("count", 1, hours)
         /\ r_result' = get_message_count(r_files, 1, r_now, hours)
    /\ r_pc' = "done"
    /\ UNCHANGED <<r_now, r_found, r_files>>
    /\ ReadersOthersUnchanged

\* get_latest_messages(chat, count)
CallGetLatestMessages ==
    /\ r_pc = "ready"
    /\ \E count \in 0..MaxReadCount :
         /\ r_call' = ReadCall("latest", 1, count)
         /\ r_result' = get_latest_messages(r_files, 1, r_now, count)
    /\ r_pc' = "done"
    /\ UNCHANGED <<r_now, r_found, r_files>>
    /\ ReadersOthersUnchanged

\* delete_old_messages(chat, days_to_keep)
CallDeleteOldMessages ==
    /\ r_pc = "ready"
    /\ \E days_to_keep \in ReaderKeepDays :
         /\ r_call' = ReadCall("prune", 1, days_to_keep)
         /\ r_files' = delete_old_messages(r_files, 1, r_now, days_to_keep)
    /\ r_result' = [raised |-> FALSE, value |-> <<>>]
    /\ r_pc' = "done"
    /\ UNCHANGED <<r_now, r_found>>
    /\ ReadersOthersUnchanged

NextReaders ==
    \/ CallGetMessageCount
    \/ CallGetLatestMessages
    \/ CallDeleteOldMessages


\* -------------------------------------------------------- SpecSummarizer
\* AISummary.generate_period_summary for one period, and what lines 549-581
\* of send_daily_summary do with the string it returns.

\* most messages handed to the summarizer
MaxSummaryMsgs == 2

\* what the chat-completions request of _make_api_request runs into;
\* "raises" is a request method that raises, as the tests patch it in
ApiOutcomes ==
    { "ok", "non200", "no_choices", "no_message", "timeout", "connection_error",
      "request_exception", "bad_json", "no_content", "unknown_exception", "raises" }

\* the strings returned by lines 20-77, by their leading tokens; the token
\* ErrorMarker stands for the two characters the pass tests for
MissingKeyText == StrValue(<<ErrorMarker, ":", "api key not configured">>)
ApiFailureText(outcome) ==
    CASE outcome = "non200" -> StrValue(<<"API request failed", ":", "HTTP">>)
      [] outcome = "no_choices" -> StrValue(<<"API response format", ErrorMarker, ":", "choices">>)
      [] outcome = "no_message" -> StrValue(<<"API response format", ErrorMarker, ":", "message">>)
      [] outcome = "timeout" -> StrValue(<<"API request timed out", ":">>)
      [] outcome = "connection_error" -> StrValue(<<"network connection", ErrorMarker, ":">>)
      [] outcome = "request_exception" -> StrValue(<<"API request failed", ":">>)
      [] outcome = "bad_json" -> StrValue(<<"JSON parsing failed", ":">>)
      [] outcome = "no_content" -> StrValue(<<"API response parsing failed", ":">>)
      [] outcome = "unknown_exception" -> StrValue(<<"unknown", ErrorMarker, ":">>)
ContentText == StrValue(<<"Topics", "...">>)

\* _make_api_request: [raised, value, posts]
make_api_request(api_key, outcome) ==
    IF outcome = "raises" THEN [raised |-> TRUE, value |-> NoSummary, posts |-> 0]
    ELSE IF ~api_key THEN [raised |-> FALSE, value |-> MissingKeyText, posts |-> 0]
    ELSE IF outcome = "ok" THEN [raised |-> FALSE, value |-> ContentText, posts |-> 1]
    ELSE [raised |-> FALSE, value |-> ApiFailureText(outcome), posts |-> 1]

\* format_messages_for_summary, line 83: msg.get raises on an element that
\* is not a dict
FormatRaises(msgs) == \E i \in DOMAIN msgs : ~msgs[i].isdict

\* the period name and the exception, without the marker
ExceptionTextUnmarked(period_name) == StrValue(<<"generating", period_name, "exception">>)
\* line 198: the error marker, then the period name and the exception
ExceptionText(period_name) == StrValue(<<ErrorMarker, ":", "generating", period_name, "exception">>)
\* line 162
NoMessagesText == StrValue(<<NoMessagesMarker, "to summarize">>)

\* generate_period_summary: [raised, value, api_calls, posts]
generate_period_summary(msgs, period_name, api_key, outcome) ==
    LET request == make_api_request(api_key, outcome)
        \* lines 197-198: whatever is raised inside the try is caught
        caught(calls) == [raised |-> FALSE, value |-> ExceptionText(period_name),
                          api_calls |-> calls, posts |-> 0]
    IN  IF msgs = <<>>
        THEN [raised |-> FALSE, value |-> NoMessagesText, api_calls |-> 0, posts |-> 0]
        ELSE IF FormatRaises(msgs) THEN caught(0)
        ELSE IF request.raised THEN caught(1)
        ELSE [raised |-> FALSE, value |-> request.value, api_calls |-> 1,
              posts |-> request.posts]

SummaryInputMsgs ==
    SeqsUpTo({NaiveMsg("u1", TimeOfDay(8, 30, 0)), NonDictMsg}, MaxSummaryMsgs)

NoPassRecord == [errors |-> <<>>, sent |-> <<>>, periods_processed |-> 0]

InitSummarizer ==
    /\ g_pc = "ready"
    /\ g_period \in {PeriodNames[i] : i \in DOMAIN PeriodNames}
    /\ g_messages \in SummaryInputMsgs
    /\ g_api_key \in BOOLEAN
    /\ g_api \in ApiOutcomes
    /\ g_api_calls = 0
    /\ g_posts = 0
    /\ g_summary = [raised |-> FALSE, value |-> NoSummary]
    /\ g_pass = NoPassRecord
    /\ host_utc_offset = 0
    /\ FilterParked
    /\ WindowsParked
    /\ AggParked
    /\ UntilParked
    /\ SchedParked
    /\ MultiParked
    /\ StoreParked
    /\ ReadersParked
    /\ RankingParked
    /\ MoreParked

SummarizerOthersUnchanged ==
    UNCHANGED <<fvars, wvars, avars, host_utc_offset, uvars, svars, mvars, tvars, rvars, kvars,
                yvars>>

\* summary = self.ai_summary.generate_period_summary(period_messages, name)
GeneratePeriodSummary ==
    /\ g_pc = "ready"
    /\ LET got == generate_period_summary(g_messages, g_period, g_api_key, g_api)
       IN  /\ g_summary' = [raised |-> got.raised, value |-> got.value]
           /\ g_api_calls' = g_api_calls + got.api_calls
           /\ g_posts' = g_posts + got.posts
    /\ g_pc' = "returned"
    /\ UNCHANGED <<g_period, g_messages, g_api_key, g_api, g_pass>>
    /\ SummarizerOthersUnchanged

\* lines 549-581 for a period with messages: the returned summary is
\* classified, and line 574 evaluates config.daily_summary_period_interval
PassHandlesSummary ==
    /\ g_pc = "returned"
    /\ g_messages # <<>>
    /\ LET class == IF g_summary.raised THEN "raise" ELSE ClassifySummary(g_summary.value)
           raised == \/ class = "raise"
                     \/ ConfigAttrRaises("daily_summary_period_interval")
       IN  g_pass' = [errors |-> PeriodErrors(g_period, class, raised),
                      sent |-> IF class = "section" THEN <<g_period>> ELSE <<>>,
                      periods_processed |-> IF class = "section" THEN 1 ELSE 0]
    /\ g_pc' = "done"
    /\ UNCHANGED <<g_period, g_messages, g_api_key, g_api, g_api_calls, g_posts, g_summary>>
    /\ SummarizerOthersUnchanged

NextSummarizer ==
    \/ GeneratePeriodSummary
    \/ PassHandlesSummary


\* ----------------------------------------------------------- SpecRanking
\* lines 585-592 of send_daily_summary: the participant ranking.

\* most participants that wrote on the day
MaxRankUsers == 12
\* most further messages after every participant's first one
MaxRankTail == 2

RankUser(i) == ToString(i)
RankMsg(i) == NaiveMsg(RankUser(i), TimeOfDay(8, 30, 0))

\* line 588: user_stats[user] = user_stats.get(user, 0) + 1; a new key goes
\* to the end of the dict
CountUser(stats, user) ==
    IF \E i \in DOMAIN stats : stats[i].user = user
    THEN [i \in DOMAIN stats |->
            IF stats[i].user = user THEN [stats[i] EXCEPT !.count = @ + 1] ELSE stats[i]]
    ELSE Append(stats, [user |-> user, count |-> 1])

\* lines 586-588: the loop over messages
RECURSIVE CountUsers(_, _)
CountUsers(msgs, stats) ==
    IF msgs = <<>> THEN stats
    ELSE CountUsers(Tail(msgs), CountUser(stats, Head(msgs).user))

\* an entry goes in front of the entries it ties with
GoesBehindOnlyLarger(placed, entry) == placed.count > entry.count
\* sorted(..., reverse=True) is stable: an entry stays behind the entries
\* that came before it and do not count less
GoesBehind(placed, entry) == placed.count >= entry.count

RECURSIVE InsertByCount(_, _)
InsertByCount(sorted, entry) ==
    IF sorted = <<>> THEN <<entry>>
    ELSE IF GoesBehind(sorted[Len(sorted)], entry) THEN Append(sorted, entry)
    ELSE Append(InsertByCount(SubSeq(sorted, 1, Len(sorted) - 1), entry), sorted[Len(sorted)])
\* line 592: sorted(user_stats.items(), key=lambda x: x[1], reverse=True)
RECURSIVE SortByCount(_)
SortByCount(stats) ==
    IF stats = <<>> THEN <<>>
    ELSE InsertByCount(SortByCount(SubSeq(stats, 1, Len(stats) - 1)), stats[Len(stats)])

\* line 592: [:10]
TopUsersLimit == 10
top_users(stats) == Prefix(SortByCount(stats), TopUsersLimit)

\* the day's messages: the first message of every participant, then a few
\* more by the first two and the last two participants
RankInputs ==
    { [i \in 1..(n + Len(tail)) |-> IF i <= n THEN RankMsg(i) ELSE RankMsg(tail[i - n])] :
        n \in 0..MaxRankUsers, tail \in SeqsUpTo({1, 2, MaxRankUsers - 1, MaxRankUsers}, MaxRankTail) }

InitRanking ==
    /\ k_pc = "ready"
    /\ k_messages \in RankInputs
    \* the periods summarized held all, none or the first of the messages
    /\ k_period_messages \in {k_messages, <<>>, SubSeq(k_messages, 1, MinOf(1, Len(k_messages)))}
    /\ k_user_stats = <<>>
    /\ k_top_users = <<>>
    /\ host_utc_offset = 0
    /\ FilterParked
    /\ WindowsParked
    /\ AggParked
    /\ UntilParked
    /\ SchedParked
    /\ MultiParked
    /\ StoreParked
    /\ ReadersParked
    /\ SummarizerParked
    /\ MoreParked

\* lines 585-592
RankUsers ==
    /\ k_pc = "ready"
    /\ k_user_stats' = CountUsers(k_messages, <<>>)
    /\ k_top_users' = top_users(k_user_stats')
    /\ k_pc' = "done"
    /\ UNCHANGED <<k_messages, k_period_messages>>
    /\ UNCHANGED <<fvars, wvars, avars, host_utc_offset, uvars, svars, mvars, tvars, rvars, gvars,
                   yvars>>

NextRanking == RankUsers


\* ------------------------------------------------------------ SpecOffset
\* The scheduler reads datetime.now(), the time of the host's zone; the pass
\* it fires reads get_local_time_with_offset(), UTC plus the configured
\* offset.

\* scheduler.py lines 30, 57, 229: datetime.now()
HostNow(utc) == utc + Ticks(host_utc_offset * 3600)
\* message_storage.py lines 20-27
get_local_time_with_offset(utc, offset_hours) == utc + Ticks(offset_hours * 3600)

\* config.timezone_offset_hours settings
ConfigOffsets == {0, 8}
\* instants at which the loop computes its wait: day 1 UTC
OffsetInstants == {DayTicks + t : t \in UntilNows}

InitOffset ==
    /\ o_pc = "ready"
    /\ o_utc \in OffsetInstants
    /\ host_utc_offset \in HostOffsets
    /\ o_offset_hours \in ConfigOffsets
    /\ o_target \in {parse_time(str) : str \in ConfigTimeStrs}
    /\ o_local_now = 0
    /\ o_seconds = 0
    /\ o_loaded_day = -1
    /\ FilterParked
    /\ WindowsParked
    /\ AggParked
    /\ UntilParked
    /\ SchedParked
    /\ MultiParked
    /\ StoreParked
    /\ ReadersParked
    /\ SummarizerParked
    /\ RankingParked
    /\ RestartParked
    /\ RaceParked

OffsetOthersUnchanged ==
    UNCHANGED <<fvars, wvars, avars, host_utc_offset, uvars, svars, mvars, tvars, rvars, gvars,
                kvars, zvars, cvars>>

\* scheduler.py line 213: seconds_to_wait = self.seconds_until_target_time()
ComputeWait ==
    /\ o_pc = "ready"
    /\ o_local_now' = HostNow(o_utc)
    /\ o_seconds' = seconds_until_target_time(o_local_now', o_target)
    /\ o_pc' = "waiting"
    /\ UNCHANGED <<o_utc, o_offset_hours, o_target, o_loaded_day>>
    /\ OffsetOthersUnchanged

\* the waits have lasted seconds_to_wait in all; line 244 fires the pass,
\* whose lines 511-514 load the partition of get_local_time_with_offset().date()
FireAtTarget ==
    /\ o_pc = "waiting"
    /\ o_utc' = o_utc + Ticks(o_seconds)
    /\ o_loaded_day' = DateOf(get_local_time_with_offset(o_utc', o_offset_hours))
    /\ o_pc' = "fired"
    /\ UNCHANGED <<o_offset_hours, o_target, o_local_now, o_seconds>>
    /\ OffsetOthersUnchanged

NextOffset ==
    \/ ComputeWait
    \/ FireAtTarget


\* ----------------------------------------------------------- SpecRestart
\* start() and stop() called in any order from the bot's thread while the
\* loop threads run. The clock is followed by its distance to the next
\* occurrence of the target: far, within the last 60 s, due.

\* most threads start() creates in one behaviour
MaxLoops == 2
\* occurrences of the target the clock passes
MaxOccurrences == 2

LoopThreads == 1..MaxLoops
\* threads whose scheduler_loop has not returned
LiveLoops(pc) == {t \in LoopThreads : pc[t] \notin {"none", "exited"}}
\* threads inside one of the waits of the loop
Sleeping(pc) == {t \in LoopThreads : pc[t] \in {"chunk_wait", "prefire_wait", "cooldown"}}

InitRestart ==
    /\ z_running = FALSE
    /\ z_pc = [t \in LoopThreads |-> "none"]
    /\ z_phase \in {"far", "near"}
    /\ z_day = 1
    /\ z_fired = <<>>
    /\ host_utc_offset = 0
    /\ FilterParked
    /\ WindowsParked
    /\ AggParked
    /\ UntilParked
    /\ SchedParked
    /\ MultiParked
    /\ StoreParked
    /\ ReadersParked
    /\ SummarizerParked
    /\ RankingParked
    /\ OffsetParked
    /\ RaceParked

RestartOthersUnchanged ==
    UNCHANGED <<fvars, wvars, avars, host_utc_offset, uvars, svars, mvars, tvars, rvars, gvars,
                kvars, ovars, cvars>>

\* start(), lines 301-308: a call while running returns at once; otherwise
\* the flag is set and a new thread runs scheduler_loop
StartCalled ==
    /\ IF z_running
       THEN UNCHANGED <<z_running, z_pc>>
       ELSE /\ \E t \in LoopThreads :
                 /\ z_pc[t] = "none"
                 /\ \A earlier \in LoopThreads : earlier < t => z_pc[earlier] # "none"
                 /\ z_pc' = [z_pc EXCEPT ![t] = "head"]
            /\ z_running' = TRUE
    /\ UNCHANGED <<z_phase, z_day, z_fired>>
    /\ RestartOthersUnchanged

\* stop(), lines 313-318: the flag is cleared and the thread joined for at
\* most 10 s. A thread at the loop test sees the flag and returns; a thread
\* inside a wait (up to 60 s) returns in that time only if its wait was about
\* to end (woke); the others are still asleep when stop() returns
StopCalled ==
    /\ z_running
    /\ z_running' = FALSE
    /\ \E woke \in SUBSET Sleeping(z_pc) :
         z_pc' = [t \in LoopThreads |->
                    IF z_pc[t] = "head" \/ t \in woke THEN "exited" ELSE z_pc[t]]
    /\ UNCHANGED <<z_phase, z_day, z_fired>>
    /\ RestartOthersUnchanged

\* lines 211-222, 270-276: the loop test, then the wait the distance to the
\* target asks for; at the target itself the pass is fired at once
LoopTest ==
    /\ \E t \in LoopThreads :
         /\ z_pc[t] = "head"
         /\ IF ~z_running
            THEN z_pc' = [z_pc EXCEPT ![t] = "exited"] /\ UNCHANGED z_fired
            ELSE /\ z_phase # "due"
                 /\ z_pc' = [z_pc EXCEPT ![t] = IF z_phase = "near" THEN "prefire_wait"
                                                ELSE "chunk_wait"]
                 /\ UNCHANGED z_fired
    /\ UNCHANGED <<z_running, z_phase, z_day>>
    /\ RestartOthersUnchanged

\* lines 276-279: the chunked wait is over (the last minute has begun), or a
\* chunk ends with the flag cleared
ChunkedWaitOver ==
    /\ \E t \in LoopThreads :
         /\ z_pc[t] = "chunk_wait"
         /\ z_phase = "near" \/ ~z_running
         /\ z_pc' = [z_pc EXCEPT ![t] = "head"]
    /\ UNCHANGED <<z_running, z_phase, z_day, z_fired>>
    /\ RestartOthersUnchanged

\* lines 222-244: the direct wait ends at the target; the flag is read and
\* the pass fired
DirectWaitOver ==
    /\ z_phase = "due"
    /\ \E t \in LoopThreads :
         /\ z_pc[t] = "prefire_wait"
         /\ IF ~z_running
            THEN z_pc' = [z_pc EXCEPT ![t] = "exited"] /\ UNCHANGED z_fired
            ELSE /\ z_pc' = [z_pc EXCEPT ![t] = "cooldown"]
                 /\ z_fired' = Append(z_fired, [thread |-> t, day |-> z_day])
    /\ UNCHANGED <<z_running, z_phase, z_day>>
    /\ RestartOthersUnchanged

\* time passes: the last minute begins, the target arrives, the minute after
\* it is over. No wait lasts longer than it was asked to: the direct waits
\* end at the target, the cool-downs a minute after it
ClockAdvances ==
    /\ CASE z_phase = "far" ->
              /\ z_phase' = "near"
              /\ UNCHANGED <<z_day, z_pc>>
         [] z_phase = "near" ->
              /\ \A t \in LoopThreads : z_pc[t] \notin {"head", "chunk_wait"}
              /\ z_phase' = "due"
              /\ UNCHANGED <<z_day, z_pc>>
         [] z_phase = "due" ->
              /\ z_day < MaxOccurrences
              /\ \A t \in LoopThreads : z_pc[t] # "prefire_wait"
              /\ z_phase' = "far"
              /\ z_day' = z_day + 1
              \* line 268: the cool-downs end
              /\ z_pc' = [t \in LoopThreads |-> IF z_pc[t] = "cooldown" THEN "head" ELSE z_pc[t]]
    /\ UNCHANGED <<z_running, z_fired>>
    /\ RestartOthersUnchanged

NextRestart ==
    \/ StartCalled
    \/ StopCalled
    \/ LoopTest
    \/ ChunkedWaitOver
    \/ DirectWaitOver
    \/ ClockAdvances


\* -------------------------------------------------------------- SpecRace
\* handle_message saves on the thread of the bot's event loop while the
\* scheduler's thread (its own event loop, scheduler.py:238-244) runs
\* send_daily_summary, which loads the same partition file. The steps of
\* save_message and the reader's load_messages interleave freely.

\* save_message calls in one behaviour
MaxRaceSaves == 3
\* load_messages calls of the reader in one behaviour
MaxRaceReads == 3

NoRead == [op |-> "none"]
\* a load_messages of the reader: what it returned, the list the file held
\* before the append in flight and the list that append leaves, and the
\* status of the pass that loaded it
RaceRead(value, before, after, status) ==
    [op |-> "load", value |-> value, before |-> before, after |-> after, status |-> status]

\* telegram_bot.py:516-523: an empty day ends the pass with no_messages
StatusOfLoadedDay(loaded) == IF loaded = <<>> THEN "no_messages" ELSE "summarized"

InitRace ==
    /\ c_pc = "idle"
    /\ c_held \in {<<>>, <<0>>}
    /\ c_file = IF c_held = <<>> THEN FileOf("absent", <<>>) ELSE FileOf("json", c_held)
    /\ c_messages = <<>>
    /\ c_saves = 0
    /\ c_read = NoRead
    /\ c_reads = 0
    /\ host_utc_offset = 0
    /\ FilterParked
    /\ WindowsParked
    /\ AggParked
    /\ UntilParked
    /\ SchedParked
    /\ MultiParked
    /\ StoreParked
    /\ ReadersParked
    /\ SummarizerParked
    /\ RankingParked
    /\ OffsetParked
    /\ RestartParked

RaceOthersUnchanged ==
    UNCHANGED <<fvars, wvars, avars, host_utc_offset, uvars, svars, mvars, tvars, rvars, gvars,
                kvars, ovars, zvars>>

\* save_message, lines 70-74: the day's list is loaded and the event appended
WriterLoads ==
    /\ c_pc = "idle"
    /\ c_saves < MaxRaceSaves
    /\ c_saves' = c_saves + 1
    /\ c_messages' = WriteEventLast(load_messages(c_file), c_saves')
    /\ c_pc' = "loaded"
    /\ UNCHANGED <<c_file, c_held, c_read, c_reads>>
    /\ RaceOthersUnchanged

\* line 77: open(file_path, 'w') truncates the file
WriterOpens ==
    /\ c_pc = "loaded"
    /\ c_file' = FileOf("corrupt", <<>>)
    /\ c_pc' = "opened"
    /\ UNCHANGED <<c_messages, c_saves, c_held, c_read, c_reads>>
    /\ RaceOthersUnchanged

\* line 78: json.dump writes the text piece by piece; a first part of it is
\* in the file
WriterDumps ==
    /\ c_pc = "opened"
    /\ c_file' = FileOf("corrupt", <<>>)
    /\ c_pc' = "dumping"
    /\ UNCHANGED <<c_messages, c_saves, c_held, c_read, c_reads>>
    /\ RaceOthersUnchanged

\* lines 77-78: the with block ends, the whole text is in the file
WriterCloses ==
    /\ c_pc \in {"opened", "dumping"}
    /\ c_file' = FileAfterWrite(c_file, c_messages, "ok")
    /\ c_held' = c_messages
    /\ c_pc' = "idle"
    /\ UNCHANGED <<c_messages, c_saves, c_read, c_reads>>
    /\ RaceOthersUnchanged

\* load_messages on the scheduler's thread, lines 82-93, and the test of
\* send_daily_summary on what it returned
ReaderLoads ==
    /\ c_reads < MaxRaceReads
    /\ c_reads' = c_reads + 1
    /\ LET value == load_messages(c_file)
       IN  c_read' = RaceRead(value, c_held, IF c_pc = "idle" THEN c_held ELSE c_messages,
                              StatusOfLoadedDay(value))
    /\ UNCHANGED <<c_pc, c_file, c_messages, c_saves, c_held>>
    /\ RaceOthersUnchanged

NextRace ==
    \/ WriterLoads
    \/ WriterOpens
    \/ WriterDumps
    \/ WriterCloses
    \/ ReaderLoads


vars == <<fvars, wvars, avars, host_utc_offset, latervars>>

SpecFilter == InitFilter /\ [][NextFilter]_vars
SpecWindows == InitWindows /\ [][NextWindows]_vars
SpecAgg == InitAgg /\ [][NextAgg]_vars
SpecUntil == InitUntil /\ [][NextUntil]_vars
SpecSched == InitSched /\ [][NextSched]_vars
SpecMulti == InitMulti /\ [][NextMulti]_vars
SpecStore == InitStore /\ [][NextStore]_vars
SpecReaders == InitReaders /\ [][NextReaders]_vars
SpecSummarizer == InitSummarizer /\ [][NextSummarizer]_vars
SpecRanking == InitRanking /\ [][NextRanking]_vars
SpecOffset == InitOffset /\ [][NextOffset]_vars
SpecRestart == InitRestart /\ [][NextRestart]_vars
SpecRace == InitRace /\ [][NextRace]_vars
\* the loop runs on a thread of its own: start() starts it, every wait ends
\* when its time is over and send_daily_summaries returns or raises
SpecSchedLive == InitSchedLive /\ [][NextSchedLive]_vars /\ WF_vars(NextSchedLive)
\* ================================================================ claims
\* ---- send_daily_summary (SpecAgg)
Returned == a_pc = "done"
AllEventsWellFormed == \A j \in DOMAIN messages : Parsable(messages[j])
AllFourNonEmpty == Len(visited) = 4 /\ \A k \in 1..4 : visited[k].n > 0
IsPeriodName(x) == \E k \in DOMAIN PeriodNames : PeriodNames[k] = x
SectionsSent == SelectSeq(sent, IsPeriodName)
\* a summarizer return that is a normal text: a non-empty str that begins
\* with neither marker
NormalText(v) ==
    v.type = "str" /\ v.toks # <<>> /\ v.toks[1] \notin {ErrorMarker, NoMessagesMarker}
ErrorMarked(v) == v.type = "str" /\ v.toks # <<>> /\ v.toks[1] = ErrorMarker
EntriesNaming(name) == {e \in DOMAIN result.errors : result.errors[e].period = name}

\* C1: when the day's events fall in all four periods and the summarizer
\* returns a normal text for every call, the pass returns status success,
\* periods_processed 4, no errors, and the four sections were sent in the
\* order Morning, Afternoon, Evening, LateNight.
C1_AllPeriodsSucceed ==
    (Returned /\ AllEventsWellFormed /\ AllFourNonEmpty
       /\ \A k \in 1..4 : NormalText(visited[k].summary))
    => /\ result.status = "success"
       /\ result.periods_processed = 4
       /\ result.errors = <<>>
       /\ SectionsSent = PeriodNames

\* C2: when all four periods have messages and the summarizer returns an
\* error-marker text for exactly one of them and a normal text for the other
\* three, the pass returns status partial, exactly one error, and
\* periods_processed 3.
C2_OneErrorIsPartial ==
    (Returned /\ AllEventsWellFormed /\ AllFourNonEmpty
       /\ Cardinality({k \in 1..4 : ErrorMarked(visited[k].summary)}) = 1
       /\ \A k \in 1..4 : ErrorMarked(visited[k].summary) \/ NormalText(visited[k].summary))
    => /\ result.status = "partial"
       /\ Len(result.errors) = 1
       /\ result.periods_processed = 3

\* C3: when the processing of a period raised, exactly one error entry names
\* that period, and once the loop is over every later period was filtered and,
\* if it had messages, handed to the summarizer.
C3_PeriodFaultIsolation ==
    \A k \in DOMAIN visited :
        visited[k].raised =>
            /\ Cardinality(EntriesNaming(visited[k].name)) = 1
            /\ (a_pc \in {"stats", "done"} =>
                    /\ Len(visited) = Len(time_periods)
                    /\ \A j \in (k + 1)..Len(visited) :
                           visited[j].n > 0 =>
                               \E c \in DOMAIN ai_calls : ai_calls[c] = visited[j].name)

\* C4: a failure of the store or of the statistics ends in the return of a
\* report, never outside it: whenever the top-level except clause ran, the
\* pass has returned a report with status failed and an error entry for
\* that exception.
C4_NeverPropagates ==
    /\ (Returned => result.status \in {"success", "partial", "failed", "no_messages"})
    /\ (fatal => /\ Returned
                 /\ result.status = "failed"
                 /\ \E e \in DOMAIN result.errors : result.errors[e].kind = "fatal")
\* a pass whose statistics raised after periods had recorded errors
C4_Witness == Returned /\ fatal /\ Len(result.errors) > 1 /\ Len(visited) = 4

\* C5: on a normal return for a day with messages, status is success iff
\* periods_processed > 0 and errors is empty, and partial iff
\* periods_processed > 0 and errors is non-empty.
C5_StatusRule ==
    (Returned /\ ~fatal /\ messages # <<>>)
    => /\ (result.status = "success"
             <=> (result.periods_processed > 0 /\ result.errors = <<>>))
       /\ (result.status = "partial"
             <=> (result.periods_processed > 0 /\ result.errors # <<>>))
\* a normal return with sections sent and errors recorded
C5_Witness ==
    /\ Returned /\ ~fatal /\ messages # <<>>
    /\ result.status = "partial" /\ result.periods_processed > 0 /\ result.errors # <<>>

\* the day's partition holds no events: no file, or an empty list
EmptyDay == day_file.kind \in {"absent", "json"} /\ day_file.msgs = <<>>

\* C6: for a day whose partition holds 0 events the summarizer is never
\* called and the pass returns status no_messages, periods_processed 0 and
\* no errors.
C6_EmptyDay ==
    EmptyDay =>
        /\ ai_calls = <<>>
        /\ (Returned => /\ result.status = "no_messages"
                        /\ result.periods_processed = 0
                        /\ result.errors = <<>>)
\* the pass has returned for an empty day
C6_Witness == Returned /\ EmptyDay /\ sent = <<"no_messages_notice">>

\* C38: a pass that returns status no_messages has an empty errors list: a
\* pass whose periods had messages but whose summarizer calls all ended in an
\* error is not reported as no_messages.
C38_EmptyHasNoErrors ==
    (Returned /\ result.status = "no_messages") => result.errors = <<>>

RECURSIVE MatchesUpTo(_)
\* the (event, period) matches of the loaded list over the first n periods
\* the loop went through: visited[k].n is the length of the list the filter
\* returned for period k
MatchesUpTo(n) == IF n = 0 THEN 0 ELSE MatchesUpTo(n - 1) + visited[n].n
\* the canonical windows as the design states them: Morning, Afternoon and
\* Evening closed at both ends, LateNight [00:00, 06:00)
InCanonicalWindow(i, t) ==
    CASE i = 1 -> TimeOfDay(6, 0, 0) <= t /\ t <= TimeOfDay(12, 0, 0)
      [] i = 2 -> TimeOfDay(12, 0, 0) <= t /\ t <= TimeOfDay(18, 0, 0)
      [] i = 3 -> TimeOfDay(18, 0, 0) <= t /\ t <= TimeOfDay(23, 59, 0)
      [] OTHER -> t < TimeOfDay(6, 0, 0)
WindowsWithEvents ==
    {i \in DOMAIN time_periods :
        \E j \in DOMAIN messages :
            Parsable(messages[j]) /\ InCanonicalWindow(i, MsgTimeOnly(messages[j]))}

ClaimInWindow(t, s, e) ==
    \/ (s <= e /\ s <= t /\ t <= e)
    \/ (s > e /\ (t >= s \/ t < e))
ClaimSelects(msg) ==
    Parsable(msg) /\ ClaimInWindow(MsgTimeOnly(msg), ParseHM(f_start), ParseHM(f_end))

\* C7: of the events with a parsable timestamp the filter returns exactly
\* those whose time of day t satisfies (start <= end and start <= t <= end)
\* or (start > end and (t >= start or t < end)), start and end compared as
\* times of day.
C7_FilterMembership ==
    f_pc = "done" =>
        SelectSeq(f_result, Parsable) = SelectSeq(f_messages, ClaimSelects)

SelectedBy(i, msg) == \E k \in DOMAIN w_selected[i] : w_selected[i][k] = msg
PeriodsSelecting(msg) == {i \in DOMAIN w_selected : SelectedBy(i, msg)}

\* C8: every event with a parsable timestamp is selected by at least one of
\* the four periods.
C8_PeriodsCoverDay ==
    w_pc = "done" =>
        \A j \in DOMAIN w_messages :
            Parsable(w_messages[j]) => PeriodsSelecting(w_messages[j]) # {}

\* C9: an event at exactly 06:00:00 is selected by Morning and not by
\* LateNight, and only events at 12:00:00 or 18:00:00 are selected by two
\* periods.
C9_LateNightHalfOpen ==
    w_pc = "done" =>
        \A j \in DOMAIN w_messages :
            Parsable(w_messages[j]) =>
                /\ (MsgTimeOnly(w_messages[j]) = TimeOfDay(6, 0, 0)
                      => (1 \in PeriodsSelecting(w_messages[j])
                          /\ 4 \notin PeriodsSelecting(w_messages[j])))
                /\ (Cardinality(PeriodsSelecting(w_messages[j])) >= 2
                      => MsgTimeOnly(w_messages[j]) \in {TimeOfDay(12, 0, 0), TimeOfDay(18, 0, 0)})

\* C10: no event whose timestamp is missing or unparsable is returned, and
\* the filter returns what it returns for the list without those events.
C10_MalformedSkipped ==
    f_pc = "done" =>
        /\ \A k \in DOMAIN f_result : Parsable(f_result[k])
        /\ f_result = FilterMessagesByTimeRange(SelectSeq(f_messages, Parsable), f_start, f_end)
\* a malformed event precedes an event that the filter returned
C10_Witness ==
    /\ f_pc = "done"
    /\ Len(f_messages) >= 2
    /\ ~Parsable(f_messages[1])
    /\ Parsable(f_messages[2])
    /\ f_result = <<f_messages[2]>>

\* ---- scheduler_loop (SpecSched)
LastFire == fires[Len(fires)]
\* the last seconds_until_target_time call was made after the last fire began
RecomputedAfterFire == fires # <<>> /\ LastFire.ended >= 0 /\ computed_at > LastFire.began

\* C11: one loop fires at most once per occurrence of the target time of
\* day, however long a fire runs: two fires never aim at the same day's
\* target, and the first computation after a fire is made no sooner than the
\* cool-down after the fire ended and aims at a later day's occurrence.
C11_OneFirePerOccurrence ==
    /\ \A i, j \in DOMAIN fires :
           i < j => DateOf(fires[i].target_dt) < DateOf(fires[j].target_dt)
    /\ RecomputedAfterFire
         => /\ computed_at >= LastFire.ended + Ticks(CooldownSeconds)
            /\ DateOf(s_target_dt) > DateOf(LastFire.target_dt)

\* an instantaneous fire that began within the last second before its
\* target has been followed by the next day's fire
C11_Witness ==
    /\ Len(fires) = 2
    /\ fires[1].began < fires[1].target_dt
    /\ fires[1].ended = fires[1].began
    /\ fires[2].target_dt = fires[1].target_dt + DayTicks

\* C13: after stop() the loop starts no fire, ends at most one more wait
\* (the one in progress, or the cool-down of a fire that was in flight) and
\* when it has exited every fire it started has run to its end.
C13_StopIsCooperative ==
    stop_called =>
        /\ ~running
        /\ \A i \in DOMAIN fires : ~fires[i].after_stop
        /\ sleeps_after_stop <= 1
        /\ s_pc = "exited" => \A i \in DOMAIN fires : fires[i].ended >= 0

\* stop() ran while a fire was in flight or cooling down; the loop finished
\* the cool-down and exited
C13_Witness ==
    /\ stop_called /\ s_pc = "exited" /\ sleeps_after_stop = 1
    /\ fires # <<>> /\ LastFire.ended >= 0
    /\ clock = LastFire.ended + Ticks(CooldownSeconds)

\* C14: when the error counter reaches 5 in the outer except clause the
\* flag is cleared and the loop has exited in that same step, and an exited
\* loop neither waits nor fires; below 5 a running loop waits the 300 s
\* backoff and goes back to the head of the loop.
C14_ErrorCeiling ==
    [][ /\ error_count' >= MaxIterationErrors => (s_pc' = "exited" /\ ~running')
        /\ s_pc = "exited" => (s_pc' = "exited" /\ clock' = clock /\ fires' = fires)
        /\ (s_pc = "except" /\ s_pc' # "except" /\ running
              /\ error_count + 1 < MaxIterationErrors)
             => (s_pc' = "backoff" /\ running' /\ clock' = clock)
        /\ (s_pc = "backoff" /\ s_pc' # "backoff")
             => (s_pc' = "head" /\ clock' = clock + Ticks(BackoffSeconds))
      ]_vars

\* the fifth error stopped a scheduler nobody had stopped
C14_Witness == error_count = MaxIterationErrors /\ s_pc = "exited" /\ ~stop_called

\* ---- send_daily_summaries (SpecMulti)
MultiReturned == m_pc = "done"
BucketSum ==
    execution_report.successful + execution_report.partial
      + execution_report.failed + execution_report.no_messages
\* increments of one bucket, of one chat
CountedIn(bucket) == {i \in DOMAIN m_counted : m_counted[i].bucket = bucket}
CountedFor(chat) == {i \in DOMAIN m_counted : m_counted[i].chat = chat}
ChatsOf(ids) == {ids[i] : i \in DOMAIN ids}
ErrorsAbout(chat, kind) ==
    {i \in DOMAIN execution_report.errors : execution_report.errors[i] = MultiError(chat, kind)}

\* C15: with an empty chat list the call returns at once with one error
\* entry and total 0, and neither the pass nor the sink was invoked for any
\* chat.
C15_EmptyChatList ==
    (MultiReturned /\ m_store_ok /\ m_dirs = <<>>)
    => /\ execution_report.total_chats = 0
       /\ execution_report.errors = << MultiError(0, "no_chats") >>
       /\ BucketSum = 0
       /\ execution_report.chat_results = <<>>
       /\ m_calls = <<>>
       /\ m_sends = <<>>

C15_Witness ==
    MultiReturned /\ m_store_ok /\ m_dirs = <<>> /\ Len(execution_report.errors) = 1

\* C16: after a run over a non-empty chat list every chat was counted in
\* exactly one bucket, the four counters add up to total_chats, each counter
\* is the number of chats counted in it, and a chat whose pass returned a
\* report is counted in the bucket its status names.
C16_BucketsPartitionChats ==
    (MultiReturned /\ m_store_ok /\ m_dirs # <<>>)
    => /\ \A chat \in ChatsOf(chat_ids) : Cardinality(CountedFor(chat)) = 1
       /\ BucketSum = execution_report.total_chats
       /\ execution_report.total_chats = Len(chat_ids)
       /\ execution_report.successful = Cardinality(CountedIn("successful"))
       /\ execution_report.partial = Cardinality(CountedIn("partial"))
       /\ execution_report.failed = Cardinality(CountedIn("failed"))
       /\ execution_report.no_messages = Cardinality(CountedIn("no_messages"))
       /\ \A r \in DOMAIN execution_report.chat_results :
            LET res == execution_report.chat_results[r]
            IN  \A i \in CountedFor(res.chat) :
                  m_counted[i].bucket =
                    CASE res.status = "success" -> "successful"
                      [] res.status = "partial" -> "partial"
                      [] res.status = "no_messages" -> "no_messages"
                      [] res.status = "failed" -> "failed"

\* a run over three chats returned with one chat in each of three buckets
C16_Witness ==
    /\ MultiReturned /\ Len(chat_ids) = 3
    /\ execution_report.partial = 1 /\ execution_report.no_messages = 1
    /\ execution_report.failed = 1

\* C17: when the pass of a chat raises, failed is incremented and an error
\* entry is appended for that chat, the chats after it are still passed to
\* send_daily_summary in list order, and the run returns its report.
C17_ChatFaultIsolation ==
    (m_raised # {})
    => /\ \A chat \in m_raised :
            /\ Cardinality(ErrorsAbout(chat, "pass_raised")) = 1
            /\ \E i \in CountedFor(chat) : m_counted[i].bucket = "failed"
       /\ execution_report.failed >= Cardinality(m_raised)
       /\ m_calls = SubSeq(chat_ids, 1, Len(m_calls))
       /\ m_pc \in {"chats", "report", "done"}
       /\ m_pc \in {"report", "done"} => m_calls = chat_ids
       /\ m_pc = "chats" => Len(m_calls) = m_idx - 1

\* the first of three chats raised, the other two were still processed and
\* the report was returned
C17_Witness ==
    /\ MultiReturned /\ Len(chat_ids) = 3 /\ chat_ids[1] \in m_raised
    /\ Cardinality(m_raised) = 1 /\ m_calls = chat_ids

\* ---- save_message and load_messages (SpecStore)
\* load_messages(chat, today) was called right after save_message(chat, event)
LoadedTodayAfterSave ==
    /\ t_prev.op = "save" /\ t_last.op = "load"
    /\ t_last.chat = t_prev.chat
    /\ t_last.day = t_last.today
HoldsEvent(msgs, event) ==
    \E i \in DOMAIN msgs : msgs[i].id = event.id /\ msgs[i].ts.kind # "missing"

\* C18: load_messages(chat, today) called right after save_message(chat,
\* event) returns a list that holds the event with a timestamp, whatever
\* the store held before and whatever the time of day of the save.
C18_AppendThenRead ==
    LoadedTodayAfterSave => (~t_last.raised /\ HoldsEvent(t_last.value, t_prev.event))

\* C19: load_messages returns the empty list, and raises nothing, for a
\* partition that was never written and for one whose file is corrupt or
\* cannot be read.
C19_ReadToleratesBadFiles ==
    (t_last.op = "load"
       /\ store_files[t_last.chat][t_last.day].kind
            \in {"absent", "corrupt", "unreadable", "undecodable"})
    => (~t_last.raised /\ t_last.value = <<>>)

\* C20: two load_messages calls for the same chat and day with no other
\* storage call between them have the same outcome and return the same list.
C20_ReadIdempotent ==
    (t_prev.op = "load" /\ t_last.op = "load"
       /\ t_prev.chat = t_last.chat /\ t_prev.day = t_last.day)
    => (t_last.raised = t_prev.raised /\ t_last.value = t_prev.value)

\* a partition written by save_message was read twice in a row and both
\* reads returned the same non-empty list
C20_Witness ==
    /\ t_prev.op = "load" /\ t_last.op = "load"
    /\ t_prev.chat = t_last.chat /\ t_prev.day = t_last.day
    /\ t_last.chat = 2 /\ ~t_last.raised /\ t_last.value # <<>>
    /\ t_last.value = t_prev.value

\* every list load_messages can return now, with the partition it is read from
ReadableLists ==
    { [chat |-> c, day |-> d, msgs |-> LoadOutcome(store_files, store_dirs, c, d).value] :
        c \in StoreChats, d \in StoreDays }
OrderedByTimestamp(msgs) ==
    \A i, j \in DOMAIN msgs : i < j => msgs[i].ts.at <= msgs[j].ts.at

C22_EventInPartitionOfItsDate ==
    \A r \in ReadableLists :
        \A i \in DOMAIN r.msgs :
            /\ r.msgs[i].ts.day = r.day
            /\ \A q \in ReadableLists :
                   (\E j \in DOMAIN q.msgs : q.msgs[j].id = r.msgs[i].id)
                     => (q.chat = r.chat /\ q.day = r.day)

\* the step is one save_message call
IsSaveStep == t_saves' = t_saves + 1
PartitionsReadable ==
    \A c \in StoreChats, d \in StoreDays : store_files[c][d].kind \in {"absent", "json"}

\* C23: a save_message whose write fails raises a storage error to its
\* caller and leaves the stored partitions as they were.
C23_WriteFailureSurfaced ==
    [][ (IsSaveStep /\ t_last'.write # "ok")
          => (t_last'.raised /\ store_files' = store_files) ]_vars

\* C24: when every partition is readable, a save_message that writes changes
\* nothing in the store except that the current day's partition of its chat
\* is the list it held before with the new event added at the end.
C24_AppendOnly ==
    [][ (IsSaveStep /\ PartitionsReadable /\ t_last'.written)
          => store_files' =
               [store_files EXCEPT ![t_last'.chat][t_last'.today] =
                  FileOf("json", Append(load_messages(@), t_last'.event))] ]_vars

\* ---- load_recent_messages, get_latest_messages, delete_old_messages (SpecReaders)
ReaderReturned(op) == r_pc = "done" /\ r_call.op = op
\* the events of a chat that the files found before the call hold, as
\* <<day, index>> positions
StoredPositions(chat) ==
    { pos \in ReaderDays \X (1..Cardinality(ReaderEventTods)) :
        pos[2] <= Len(load_messages(r_found[chat][pos[1]])) }
EventAt(chat, pos) == load_messages(r_found[chat][pos[1]])[pos[2]]

\* C25: get_message_count(chat, hours) returns exactly the number of stored
\* events of the chat whose timestamp t satisfies now - t <= hours*3600, for
\* every hours >= 0 and every time of day of the call.
C25_CountSinceCoversWindow ==
    ReaderReturned("count") =>
        /\ ~r_result.raised
        /\ r_result.value =
             Cardinality({pos \in StoredPositions(r_call.chat) :
                            r_now - TsOf(EventAt(r_call.chat, pos)) <= Ticks(r_call.arg * 3600)})

\* the stored events of a chat inside the lookback of get_latest_messages
LookbackPositions(chat) ==
    {pos \in StoredPositions(chat) : pos[1] > DateOf(r_now) - LookbackDays}
LookbackEvents(chat) == {EventAt(chat, pos) : pos \in LookbackPositions(chat)}
SeqElems(seq) == {seq[i] : i \in 1..Len(seq)}

\* C26: get_latest_messages(chat, count) returns min(count, N) events, N the
\* number of events of the chat in the 30-day lookback; they are the events
\* with the greatest timestamps among those N, in descending timestamp order.
C26_LatestAreTheNewest ==
    ReaderReturned("latest") =>
        LET value == r_result.value
            all == LookbackEvents(r_call.chat)
        IN  /\ ~r_result.raised
            /\ Len(value) = MinOf(r_call.arg, Cardinality(LookbackPositions(r_call.chat)))
            /\ Cardinality(SeqElems(value)) = Len(value)
            /\ SeqElems(value) \subseteq all
            /\ \A got \in SeqElems(value), other \in all \ SeqElems(value) :
                   TsOf(other) <= TsOf(got)
            /\ \A i \in 1..Len(value) - 1 : TsOf(value[i]) >= TsOf(value[i + 1])

PruneCutoff == DateOf(r_now) - r_call.arg
\* C27: delete_old_messages(chat, days_to_keep) deletes exactly the partitions
\* of that chat dated strictly before today - days_to_keep; the partition
\* dated on the cutoff, newer ones and other chats' partitions are unchanged.
C27_PruneStrictlyOlder ==
    ReaderReturned("prune") =>
        \A chat \in ReaderChats, day \in ReaderDays :
            r_files[chat][day] =
                IF chat = r_call.chat /\ day < PruneCutoff THEN AbsentFile
                ELSE r_found[chat][day]
\* a prune that removed a partition, kept the one dated on the cutoff and
\* met older partitions of another chat
C27_Witness ==
    /\ ReaderReturned("prune")
    /\ PruneCutoff \in ReaderDays
    /\ r_found[r_call.chat][PruneCutoff].kind = "json"
    /\ r_files[r_call.chat][PruneCutoff] = r_found[r_call.chat][PruneCutoff]
    /\ \E day \in ReaderDays :
          /\ r_found[r_call.chat][day].kind # "absent"
          /\ r_files[r_call.chat][day] = AbsentFile
    /\ \E other \in ReaderChats \ {r_call.chat}, day \in ReaderDays :
          day < PruneCutoff /\ r_files[other][day].kind = "json"

\* ---- generate_period_summary and its classification (SpecSummarizer)
\* the summarizer failed for the period: no API key, a failure of the
\* request or of its response, or an exception
SummarizerFailed ==
    /\ g_messages # <<>>
    /\ \/ FormatRaises(g_messages)
       \/ ~g_api_key
       \/ g_api # "ok"
PassHandled == g_pc = "done"

\* C28: every failure outcome of the summarizer for a window is classified
\* by the pass as an error: an entry in errors names the window, the window
\* is not delivered as a section and periods_processed is not incremented.
C28_FailuresClassifiedAsErrors ==
    (PassHandled /\ SummarizerFailed) =>
        /\ \E i \in DOMAIN g_pass.errors : g_pass.errors[i].period = g_period
        /\ g_pass.sent = <<>>
        /\ g_pass.periods_processed = 0

SummaryReturned == g_pc \in {"returned", "done"}
\* C29: generate_period_summary never raises; when the request (or anything
\* inside its try) raises for a non-empty window it returns a string
\* beginning with the error marker that names the period; for an empty list
\* it returns the no-messages marker and issues no API request.
C29_NeverRaises ==
    SummaryReturned =>
        /\ ~g_summary.raised
        /\ (g_messages # <<>> /\ (g_api = "raises" \/ FormatRaises(g_messages))) =>
              /\ g_summary.value.type = "str"
              /\ StartsWith(g_summary.value, ErrorMarker)
              /\ \E i \in DOMAIN g_summary.value.toks : g_summary.value.toks[i] = g_period
        /\ g_messages = <<>> =>
              /\ g_summary.value.type = "str"
              /\ StartsWith(g_summary.value, NoMessagesMarker)
              /\ g_api_calls = 0
              /\ g_posts = 0
\* the request raised for a window with well-formed messages and the error
\* string came back
C29_Witness ==
    /\ SummaryReturned
    /\ g_messages # <<>>
    /\ ~FormatRaises(g_messages)
    /\ g_api = "raises"
    /\ g_api_calls = 1
    /\ g_summary.value = ExceptionText(g_period)

\* ---- the participant ranking (SpecRanking)
RankUsersOf(msgs) == {msgs[i].user : i \in DOMAIN msgs}
MessagesBy(msgs, user) == Cardinality({i \in DOMAIN msgs : msgs[i].user = user})
FirstSeen(msgs, user) ==
    CHOOSE i \in DOMAIN msgs :
        msgs[i].user = user /\ \A j \in DOMAIN msgs : msgs[j].user = user => i <= j
\* a ranks ahead of b: more messages, or as many and seen first
RanksAhead(msgs, a, b) ==
    \/ MessagesBy(msgs, a) > MessagesBy(msgs, b)
    \/ MessagesBy(msgs, a) = MessagesBy(msgs, b) /\ FirstSeen(msgs, a) < FirstSeen(msgs, b)
RankedUsers == {k_top_users[i].user : i \in DOMAIN k_top_users}

\* C30: the ranking counts every loaded event of the day (not only those of
\* the processed windows), orders participants by descending count with
\* ties in first-seen order, and keeps at most the top 10.
C30_RankingOverAllEvents ==
    k_pc = "done" =>
        /\ Len(k_top_users) = MinOf(10, Cardinality(RankUsersOf(k_messages)))
        /\ RankedUsers \subseteq RankUsersOf(k_messages)
        /\ \A i \in DOMAIN k_top_users :
              k_top_users[i].count = MessagesBy(k_messages, k_top_users[i].user)
        /\ \A i, j \in DOMAIN k_top_users :
              i < j => RanksAhead(k_messages, k_top_users[i].user, k_top_users[j].user)
        /\ \A in \in RankedUsers, out \in RankUsersOf(k_messages) \ RankedUsers :
              RanksAhead(k_messages, in, out)
\* more than ten participants, one of them cut although tied with a ranked
\* one, a leader seen late, and processed windows that held fewer events
C30_Witness ==
    /\ k_pc = "done"
    /\ Cardinality(RankUsersOf(k_messages)) > 10
    /\ Len(k_top_users) = 10
    /\ k_top_users[1].user # k_messages[1].user
    /\ \E out \in RankUsersOf(k_messages) \ RankedUsers :
          MessagesBy(k_messages, out) = k_top_users[10].count
    /\ \E i \in DOMAIN k_top_users :
          k_top_users[i].count # MessagesBy(k_period_messages, k_top_users[i].user)

\* C32: whenever the allow-list is non-empty, every chat for which
\* send_daily_summaries runs an aggregation pass or sends a message is in
\* the allow-list.
C32_OnlyAllowedChats ==
    allowed_chats # {} =>
        /\ \A i \in DOMAIN m_calls : m_calls[i] \in allowed_chats
        /\ \A i \in DOMAIN m_sends : m_sends[i].chat \in allowed_chats

\* ---- the scheduler's clock and the store's clock (SpecOffset)
\* the instant the wait was computed at, under the configured offset
ConfiguredNowAtCompute ==
    get_local_time_with_offset(IF o_pc = "fired" THEN o_utc - Ticks(o_seconds) ELSE o_utc,
                               o_offset_hours)
\* C31: scheduler and store use one local-time offset: the now of
\* seconds_until_target_time is the time under the configured offset, and a
\* fire at the target time of day aggregates the partition of the calendar
\* day, under that offset, in which the target time occurred.
C31_OneOffset ==
    /\ o_pc \in {"waiting", "fired"} => o_local_now = ConfiguredNowAtCompute
    /\ o_pc = "fired" =>
          o_loaded_day = DateOf(NextTargetDt(ConfiguredNowAtCompute, o_target))

\* ---- liveness of the schedule (SpecSchedLive)
\* the occurrences of the target inside the horizon of the model
Occurrences == {DateTime(d, Ticks(parse_time(DefaultSummaryTime))) : d \in 0..(MaxDays - 1)}
\* the loop is in its chunked or direct wait and T is the occurrence that
\* arrives next
WaitingFor(T) ==
    /\ s_pc \in {"chunk_wait", "prefire_wait"}
    /\ NextTargetDt(clock, target_time) = T
FiredFor(T) == \E i \in DOMAIN fires : fires[i].target_dt = T /\ fires[i].began <= T

\* C40: while the scheduler stays running and no iteration raises, every
\* occurrence of the target that the loop is waiting for is eventually
\* fired for: neither the chunked wait nor the recomputation skips it.
C40_EveryOccurrenceFired == \A T \in Occurrences : WaitingFor(T) ~> FiredFor(T)
\* the loop slept through a whole day in chunks and fired for the occurrence
\* of each of the days it waited for
C40_Witness ==
    /\ Len(fires) = MaxDays
    /\ \A T \in Occurrences : FiredFor(T)
    /\ \A i \in DOMAIN fires : fires[i].ended = fires[i].began

\* ---- the error counter of the loop (SpecSched)
\* C34: the error counter counts consecutive failures only: between two
\* iterations it equals the number of most recent iterations that all raised
\* (an iteration that completes without an iteration-level exception resets
\* it), and the loop stops at the ceiling only when the 5 most recent
\* iterations all raised.
C34_ConsecutiveOnly ==
    /\ s_pc = "head" => error_count = raised_in_a_row
    /\ (s_pc = "exited" /\ TooManyErrors(error_count)) => raised_in_a_row >= MaxIterationErrors

\* C35: a fire that raises as the third or later of consecutive raising
\* fires is followed by the extra 10-minute wait before the 60 s cool-down.
C35_PenaltyAfterThreeFailedFires ==
    [][(s_pc = "firing" /\ s_pc' # "firing" /\ failed_fires_in_a_row' >= PenaltyThreshold)
          => s_pc' = "penalty_wait"]_vars

\* ---- reads and the data directory (SpecStore)
\* C37: a read leaves the store unchanged: only save_message changes the
\* contents of a partition or the set of chats get_chat_list returns.
C37_ReadsLeaveStore ==
    [][t_last'.op # "save" => (store_files' = store_files /\ store_dirs' = store_dirs)]_vars

\* ---- a read racing with an append (SpecRace)
\* C36: a load_messages that runs while a save_message to the same partition
\* is in progress returns the list before the append or the list after it,
\* never an empty or partial list when the partition held events, so the
\* pass that loaded it does not report no_messages for a day that has events.
C36_ReadBeforeOrAfter ==
    c_read.op = "load" =>
        /\ c_read.value \in {c_read.before, c_read.after}
        /\ c_read.before # <<>> => c_read.status # "no_messages"

\* ---- start() and stop() (SpecRestart)
\* C33: after any sequence of start() and stop() calls at most one loop
\* thread executes the loop with running = true, and no two loops fire the
\* aggregation for the same occurrence of the target.
C33_OneLoop ==
    /\ z_running => Cardinality(LiveLoops(z_pc)) <= 1
    /\ \A i, j \in DOMAIN z_fired :
          (i # j /\ z_fired[i].day = z_fired[j].day) => z_fired[i].thread = z_fired[j].thread

\* ---- seconds_until_target_time (SpecUntil)
\* time of day of datetime.now() and of the target, in ticks
UntilNowTod == u_now % DayTicks
UntilTargetTod == u_target * TicksPerSecond

\* C12: the value returned is the whole seconds to the next occurrence of
\* the target time of day: target minus now before today's target (300 at
\* five minutes before it), 86400 minus the time elapsed since the target
\* at or after it; it lies in 0..86400 and is 86400 when now is the target.
C12_SecondsUntilTarget ==
    u_pc = "done" =>
        /\ UntilNowTod < UntilTargetTod
             => u_result = (UntilTargetTod - UntilNowTod) \div TicksPerSecond
        /\ UntilNowTod >= UntilTargetTod
             => u_result = (DayTicks - (UntilNowTod - UntilTargetTod)) \div TicksPerSecond
        /\ UntilNowTod + 300 * TicksPerSecond = UntilTargetTod => u_result = 300
        /\ u_result \in 0..SecondsPerDay
        /\ UntilNowTod = UntilTargetTod => u_result = SecondsPerDay

\* a call made at the target instant itself has returned
C12_Witness == u_pc = "done" /\ UntilNowTod = UntilTargetTod /\ u_result = SecondsPerDay
====
